---- MODULE Spec2Model ----
(***************************************************************************)
(* Token Safety Check: the aggregator (ScoringEngine), the reputation       *)
(* source (HoneypotChecker), the chain source (OnChainAnalyzer) and the     *)
(* POST /api/v1/analyze handler that joins them.                            *)
(*                                                                         *)
(* Numbers.  Percentages (taxes, holder concentration) are fixed-point     *)
(* values held in hundredths: 7.00 percent is 700, the fraction 0.07 is 7. *)
(* Weights are held in tenths (0.6 is 6), confidence in thousandths        *)
(* (0.025 is 25).  A value that may be null/undefined is Null (<<>>) or    *)
(* the one-element tuple <<v>>.  A tri-state boolean|null is one of the    *)
(* strings "true", "false", "null".  An absent error is the empty string   *)
(* (both are falsy in the source language).                                *)
(***************************************************************************)
EXTENDS Integers, Sequences, FiniteSets, TLC

VARIABLES
    honeypotWeight,   \* ScoringEngine.honeypotWeight, in tenths
    onchainWeight,    \* ScoringEngine.onchainWeight, in tenths
    honeypotData,     \* the reputation record handed to the aggregator
    onchainData,      \* the chain record handed to the aggregator
    result,           \* the SafetyResult of aggregateResults, or NoResult
    pc,               \* position of the operation under analysis
    payload,          \* the JSON body the reputation service answered with
    options,          \* the retry options the two fetchers were constructed with
    web3Instances,    \* OnChainAnalyzer.web3Instances: the chain ids with an RPC client
    request,          \* the request being handled, or NoRequest
    hpFetch,          \* HoneypotChecker.checkToken in flight: position, attempt, delays slept
    ocFetch,          \* OnChainAnalyzer.analyzeToken in flight: position, attempt, code, probes
    response          \* the HTTP response of the handler, or NoResponse

engineVars == <<honeypotWeight, onchainWeight>>

requestVars == <<options, web3Instances, request, hpFetch, ocFetch, response>>

vars == <<honeypotWeight, onchainWeight, honeypotData, onchainData, result, pc, payload,
          options, web3Instances, request, hpFetch, ocFetch, response>>

----------------------------------------------------------------------------
(* Value helpers *)

Null == <<>>

Some(v) == <<v>>

Unit == 10 * 10

Pct(p) == p * Unit

Min(a, b) == IF a < b THEN a ELSE b

Max(a, b) == IF a > b THEN a ELSE b

\* Math.round(n / d) for d > 0: the nearest integer, halves towards +infinity
MathRound(n, d) == (2 * n + d) \div (2 * d)

Truthy(tri) == tri = "true"

----------------------------------------------------------------------------
(* ScoringEngine: constants *)

RISK_THRESHOLDS == [SAFE |-> 80, LOW_RISK |-> 60, MEDIUM_RISK |-> 40, HIGH_RISK |-> 20, CRITICAL |-> 0]

TAX_THRESHOLDS == [LOW |-> 5, MEDIUM |-> 10, HIGH |-> 20, CRITICAL |-> 50]

DefaultHoneypotWeight == 6

DefaultOnchainWeight == 4

NeutralScore == 50

MaxScore == 100

----------------------------------------------------------------------------
(* ScoringEngine: safe coercions *)

\* safeInt(value, defaultValue): null/undefined/NaN give the default
safeInt(value, defaultValue) == IF value = Null THEN defaultValue ELSE value[1]

\* safeFloat(value, defaultValue = 0.0)
safeFloat(value, defaultValue) == IF value = Null THEN defaultValue ELSE value[1]

----------------------------------------------------------------------------
(* ScoringEngine.calculateSafetyScore *)

SumWeights(entries) == IF Len(entries) = 0 THEN 0
                       ELSE IF Len(entries) = 1 THEN entries[1].weight
                       ELSE entries[1].weight + entries[2].weight

SumWeighted(entries) == IF Len(entries) = 0 THEN 0
                        ELSE IF Len(entries) = 1 THEN entries[1].score * entries[1].weight
                        ELSE entries[1].score * entries[1].weight + entries[2].score * entries[2].weight

\* mutant: the two weights attached to the wrong sources
ScoreEntries_Swapped(hpd, ocd, wH, wO) ==
    (IF hpd.error = "" THEN <<[score |-> MaxScore - safeInt(hpd.risk_score, NeutralScore), weight |-> wO]>> ELSE <<>>)
    \o
    (IF ocd.error = "" THEN <<[score |-> MaxScore - safeInt(ocd.risk_score, NeutralScore), weight |-> wH]>> ELSE <<>>)

ScoreEntries(hpd, ocd, wH, wO) ==
    (IF hpd.error = "" THEN <<[score |-> MaxScore - safeInt(hpd.risk_score, NeutralScore), weight |-> wH]>> ELSE <<>>)
    \o
    (IF ocd.error = "" THEN <<[score |-> MaxScore - safeInt(ocd.risk_score, NeutralScore), weight |-> wO]>> ELSE <<>>)

\* mutant: "no usable source" reported as the out-of-band score -1
calculateSafetyScore_NoData(hpd, ocd, wH, wO) ==
    LET entries == ScoreEntries(hpd, ocd, wH, wO)
    IN IF Len(entries) = 0 THEN 0 - 1
       ELSE Max(0, Min(MaxScore, MathRound(SumWeighted(entries), SumWeights(entries))))

\* mutant: no usable source scored as the worst case instead of the neutral one
calculateSafetyScore_Pessimistic(hpd, ocd, wH, wO) ==
    LET entries == ScoreEntries(hpd, ocd, wH, wO)
    IN IF Len(entries) = 0 THEN 0
       ELSE Max(0, Min(MaxScore, MathRound(SumWeighted(entries), SumWeights(entries))))

\* the outcome of 0 / 0, which Math.round, Math.min and Math.max hand on; it
\* compares false with every cutoff, as a number below all of them does
NaN == 0 - 1

calculateSafetyScore(hpd, ocd, wH, wO) ==
    LET entries == ScoreEntries(hpd, ocd, wH, wO)
        totalWeight == SumWeights(entries)
        weightedSum == SumWeighted(entries)
    IN IF Len(entries) = 0 THEN NeutralScore
       ELSE IF totalWeight = 0 THEN NaN
       ELSE Max(0, Min(MaxScore, MathRound(weightedSum, totalWeight)))

----------------------------------------------------------------------------
(* ScoringEngine.getRiskLevel, checkHoneypot *)

\* mutant: the SAFE cutoff compared strictly
getRiskLevel_Strict(safetyScore) ==
    IF safetyScore > RISK_THRESHOLDS.SAFE THEN "SAFE"
    ELSE IF safetyScore >= RISK_THRESHOLDS.LOW_RISK THEN "LOW_RISK"
    ELSE IF safetyScore >= RISK_THRESHOLDS.MEDIUM_RISK THEN "MEDIUM_RISK"
    ELSE IF safetyScore >= RISK_THRESHOLDS.HIGH_RISK THEN "HIGH_RISK"
    ELSE "CRITICAL"

getRiskLevel(safetyScore) ==
    IF safetyScore >= RISK_THRESHOLDS.SAFE THEN "SAFE"
    ELSE IF safetyScore >= RISK_THRESHOLDS.LOW_RISK THEN "LOW_RISK"
    ELSE IF safetyScore >= RISK_THRESHOLDS.MEDIUM_RISK THEN "MEDIUM_RISK"
    ELSE IF safetyScore >= RISK_THRESHOLDS.HIGH_RISK THEN "HIGH_RISK"
    ELSE "CRITICAL"

\* mutant: everything but an explicit false counts as a honeypot
checkHoneypot_NotFalse(hpd) == hpd.is_honeypot # "false"

\* Boolean(honeypotData.is_honeypot)
checkHoneypot(hpd) == Truthy(hpd.is_honeypot)

----------------------------------------------------------------------------
(* ScoringEngine.calculateConfidence, in thousandths *)

BaseConfidence == 500

FullConfidence == 1000

\* mutant: the two branches tested in the wrong order
SourcesBonus_Reordered(hpd, ocd) ==
    IF hpd.error = "" \/ ocd.error = "" THEN 100
    ELSE IF hpd.error = "" /\ ocd.error = "" THEN 300
    ELSE 0

SourcesBonus(hpd, ocd) ==
    IF hpd.error = "" /\ ocd.error = "" THEN 300
    ELSE IF hpd.error = "" \/ ocd.error = "" THEN 100
    ELSE 0

HoneypotBonus(hpd) ==
    IF hpd.error = ""
    THEN (IF Truthy(hpd.contract_verified) THEN 100 ELSE 0)
         + (IF safeInt(hpd.holder_count, 0) > 100 THEN 50 ELSE 0)
         + (IF hpd.liquidity_usd # Null /\ hpd.liquidity_usd[1] > 10000 THEN 50 ELSE 0)
    ELSE 0

\* onchainData.checks?.has_name: false when checks is absent
CheckHolds(ocd, name) == name \in DOMAIN ocd.checks /\ ocd.checks[name]

OnchainBonus(ocd) ==
    IF ocd.error = "" /\ Truthy(ocd.is_erc20)
    THEN 50 + (IF CheckHolds(ocd, "has_name") THEN 25 ELSE 0)
            + (IF CheckHolds(ocd, "has_symbol") THEN 25 ELSE 0)
    ELSE 0

calculateConfidence(hpd, ocd) ==
    Min(FullConfidence, BaseConfidence + SourcesBonus(hpd, ocd) + HoneypotBonus(hpd) + OnchainBonus(ocd))

----------------------------------------------------------------------------
(* ScoringEngine.generateWarnings.  A warning is its glyph, its fixed text, *)
(* the number interpolated into it (value) and the upstream free text      *)
(* interpolated into it (text).                                            *)

Warning(glyph, msg, value, text) == [glyph |-> glyph, msg |-> msg, value |-> value, text |-> text]

HoneypotWarnings(hpd) ==
    IF Truthy(hpd.is_honeypot)
    THEN <<Warning("warning", "HONEYPOT DETECTED - Cannot sell this token", Null, "")>>
         \o (IF hpd.honeypot_reason # "" THEN <<Warning("none", "Reason: ", Null, hpd.honeypot_reason)>> ELSE <<>>)
    ELSE <<>>

\* mutant: independent ifs instead of an else-if chain
SellTaxWarnings_Independent(hpd) ==
    LET sellTax == safeFloat(hpd.sell_tax, 0)
    IN (IF sellTax > Pct(TAX_THRESHOLDS.CRITICAL) THEN <<Warning("siren", "CRITICAL sell tax: % - Likely scam", Some(sellTax), "")>> ELSE <<>>)
       \o (IF sellTax > Pct(TAX_THRESHOLDS.HIGH) THEN <<Warning("warning", "Very high sell tax: %", Some(sellTax), "")>> ELSE <<>>)
       \o (IF sellTax > Pct(TAX_THRESHOLDS.MEDIUM) THEN <<Warning("warning", "High sell tax: %", Some(sellTax), "")>> ELSE <<>>)
       \o (IF sellTax > Pct(TAX_THRESHOLDS.LOW) THEN <<Warning("info", "Moderate sell tax: %", Some(sellTax), "")>> ELSE <<>>)

SellTaxWarnings(hpd) ==
    LET sellTax == safeFloat(hpd.sell_tax, 0)
    IN IF sellTax > Pct(TAX_THRESHOLDS.CRITICAL) THEN <<Warning("siren", "CRITICAL sell tax: % - Likely scam", Some(sellTax), "")>>
       ELSE IF sellTax > Pct(TAX_THRESHOLDS.HIGH) THEN <<Warning("warning", "Very high sell tax: %", Some(sellTax), "")>>
       ELSE IF sellTax > Pct(TAX_THRESHOLDS.MEDIUM) THEN <<Warning("warning", "High sell tax: %", Some(sellTax), "")>>
       ELSE IF sellTax > Pct(TAX_THRESHOLDS.LOW) THEN <<Warning("info", "Moderate sell tax: %", Some(sellTax), "")>>
       ELSE <<>>

BuyTaxWarnings(hpd) ==
    LET buyTax == safeFloat(hpd.buy_tax, 0)
    IN IF buyTax > Pct(TAX_THRESHOLDS.HIGH) THEN <<Warning("warning", "Very high buy tax: %", Some(buyTax), "")>>
       ELSE IF buyTax > Pct(TAX_THRESHOLDS.MEDIUM) THEN <<Warning("warning", "High buy tax: %", Some(buyTax), "")>>
       ELSE IF buyTax > Pct(TAX_THRESHOLDS.LOW) THEN <<Warning("info", "Moderate buy tax: %", Some(buyTax), "")>>
       ELSE <<>>

HolderWarnings(hpd) ==
    LET top10Percent == safeFloat(hpd.top_10_holders_percent, 0)
    IN IF top10Percent > Pct(90) THEN <<Warning("siren", "EXTREME centralization: Top 10 holders own %", Some(top10Percent), "")>>
       ELSE IF top10Percent > Pct(75) THEN <<Warning("warning", "Very high centralization: Top 10 holders own %", Some(top10Percent), "")>>
       ELSE IF top10Percent > Pct(50) THEN <<Warning("warning", "High centralization: Top 10 holders own %", Some(top10Percent), "")>>
       ELSE <<>>

ContractWarnings(hpd) ==
    (IF hpd.contract_verified = "false" THEN <<Warning("warning", "Contract source code not verified", Null, "")>> ELSE <<>>)
    \o
    (IF Truthy(hpd.is_proxy) THEN <<Warning("warning", "Proxy contract - Implementation can be changed by owner", Null, "")>> ELSE <<>>)

OnchainWarnings(ocd) ==
    (IF ocd.is_contract = "false" THEN <<Warning("siren", "Not a smart contract - EOA addresses cannot be tokens", Null, "")>> ELSE <<>>)
    \o
    (IF ocd.is_erc20 = "false" /\ Truthy(ocd.is_contract) THEN <<Warning("warning", "Does not implement standard ERC20 interface", Null, "")>> ELSE <<>>)
    \o
    (IF ocd.code_size # Null
     THEN (IF ocd.code_size[1] < 100 THEN <<Warning("warning", "Suspiciously small contract code", Null, "")>>
           ELSE IF ocd.code_size[1] > 50000 THEN <<Warning("warning", "Unusually large contract - Possible obfuscation", Null, "")>>
           ELSE <<>>)
     ELSE <<>>)

generateWarnings(hpd, ocd) ==
    HoneypotWarnings(hpd) \o SellTaxWarnings(hpd) \o BuyTaxWarnings(hpd) \o HolderWarnings(hpd)
    \o ContractWarnings(hpd) \o OnchainWarnings(ocd)

----------------------------------------------------------------------------
(* ScoringEngine.generateRecommendations.  A recommendation is its glyph,  *)
(* its fixed text and the warning count interpolated into it (n, 0 when    *)
(* the line interpolates nothing).                                         *)

Advice(glyph, msg) == [glyph |-> glyph, msg |-> msg, n |-> 0]

CountLine(glyph, msg, warnings) ==
    IF Len(warnings) > 0 THEN <<[glyph |-> glyph, msg |-> msg, n |-> Len(warnings)]>> ELSE <<>>

AbortList ==
    << Advice("no_entry", "DO NOT INTERACT - Confirmed honeypot scam"),
       Advice("cross", "Do not buy, do not hold, report as scam") >>

\* mutant: the honeypot override tested after the top bracket
generateRecommendations_LateOverride(safetyScore, isHoneypot, warnings) ==
    IF safetyScore >= 80 THEN
        << Advice("check", "Generally safe to interact"),
           Advice("tick", "Token appears legitimate based on multiple checks"),
           Advice("memo", "Always verify contract on blockchain explorer") >>
        \o CountLine("warning", "Note % minor warning(s) - Review them", warnings)
    ELSE IF isHoneypot THEN AbortList
    ELSE << Advice("warning", "Exercise caution - Some concerns detected") >>

\* mutant: the count line after the closing advice of the 20-39 bracket
generateRecommendations_CountLast(safetyScore, isHoneypot, warnings) ==
    IF isHoneypot THEN AbortList
    ELSE IF safetyScore >= 80 THEN
        << Advice("check", "Generally safe to interact"),
           Advice("tick", "Token appears legitimate based on multiple checks"),
           Advice("memo", "Always verify contract on blockchain explorer") >>
        \o CountLine("warning", "Note % minor warning(s) - Review them", warnings)
    ELSE IF safetyScore >= 60 THEN
        << Advice("warning", "Exercise caution - Some concerns detected"),
           Advice("bulb", "Start with small test transaction (<$10)"),
           Advice("magnifier", "Check recent transactions on blockchain explorer"),
           Advice("chart", "Verify liquidity and trading volume") >>
        \o CountLine("warning", "Review % warning(s) carefully", warnings)
    ELSE IF safetyScore >= 40 THEN
        << Advice("warning", "HIGH RISK - Proceed with extreme caution"),
           Advice("stop", "Only interact if you fully understand the risks"),
           Advice("money", "Never invest more than you can afford to lose"),
           Advice("magnifier", "Thoroughly research on multiple sources") >>
        \o CountLine("siren", "% significant warning(s) found", warnings)
    ELSE IF safetyScore >= 20 THEN
        << Advice("siren", "VERY HIGH RISK - Strongly advise avoiding"),
           Advice("cross", "Multiple red flags detected"),
           Advice("stop", "High probability of scam or malfunction") >>
        \o << Advice("bulb", "Consider safer alternatives") >>
        \o CountLine("siren", "Found % critical warning(s)", warnings)
    ELSE
        << Advice("no_entry", "CRITICAL RISK - DO NOT INTERACT"),
           Advice("cross", "Severe issues detected across multiple checks"),
           Advice("siren", "Almost certainly a scam or broken token") >>
        \o CountLine("warning", "% critical issue(s) found", warnings)
        \o << Advice("shield", "Protect your funds - avoid this token") >>

generateRecommendations(safetyScore, isHoneypot, warnings) ==
    IF isHoneypot THEN AbortList
    ELSE IF safetyScore >= 80 THEN
        << Advice("check", "Generally safe to interact"),
           Advice("tick", "Token appears legitimate based on multiple checks"),
           Advice("memo", "Always verify contract on blockchain explorer") >>
        \o CountLine("warning", "Note % minor warning(s) - Review them", warnings)
    ELSE IF safetyScore >= 60 THEN
        << Advice("warning", "Exercise caution - Some concerns detected"),
           Advice("bulb", "Start with small test transaction (<$10)"),
           Advice("magnifier", "Check recent transactions on blockchain explorer"),
           Advice("chart", "Verify liquidity and trading volume") >>
        \o CountLine("warning", "Review % warning(s) carefully", warnings)
    ELSE IF safetyScore >= 40 THEN
        << Advice("warning", "HIGH RISK - Proceed with extreme caution"),
           Advice("stop", "Only interact if you fully understand the risks"),
           Advice("money", "Never invest more than you can afford to lose"),
           Advice("magnifier", "Thoroughly research on multiple sources") >>
        \o CountLine("siren", "% significant warning(s) found", warnings)
    ELSE IF safetyScore >= 20 THEN
        << Advice("siren", "VERY HIGH RISK - Strongly advise avoiding"),
           Advice("cross", "Multiple red flags detected"),
           Advice("stop", "High probability of scam or malfunction") >>
        \o CountLine("siren", "Found % critical warning(s)", warnings)
        \o << Advice("bulb", "Consider safer alternatives") >>
    ELSE
        << Advice("no_entry", "CRITICAL RISK - DO NOT INTERACT"),
           Advice("cross", "Severe issues detected across multiple checks"),
           Advice("siren", "Almost certainly a scam or broken token") >>
        \o CountLine("warning", "% critical issue(s) found", warnings)
        \o << Advice("shield", "Protect your funds - avoid this token") >>

----------------------------------------------------------------------------
(* ScoringEngine.identifySources *)

identifySources(hpd, ocd) ==
    (IF hpd.error = "" /\ hpd.source # "" THEN <<hpd.source>> ELSE <<>>)
    \o
    (IF ocd.error = "" /\ ocd.source # "" THEN <<ocd.source>> ELSE <<>>)

----------------------------------------------------------------------------
(* ScoringEngine.generateMetadata and its classifiers *)

categorizeTaxRisk(maxTax) ==
    IF maxTax = 0 THEN "none"
    ELSE IF maxTax <= Pct(TAX_THRESHOLDS.LOW) THEN "low"
    ELSE IF maxTax <= Pct(TAX_THRESHOLDS.MEDIUM) THEN "medium"
    ELSE IF maxTax <= Pct(TAX_THRESHOLDS.HIGH) THEN "high"
    ELSE "critical"

categorizeCentralizationRisk(top10Percent) ==
    IF top10Percent = 0 THEN "none"
    ELSE IF top10Percent <= Pct(30) THEN "low"
    ELSE IF top10Percent <= Pct(50) THEN "medium"
    ELSE IF top10Percent <= Pct(75) THEN "high"
    ELSE "critical"

\* Object.values(checks).filter((v) => v === false).length
FailedChecks(ocd) == Cardinality({k \in DOMAIN ocd.checks : ~ocd.checks[k]})

categorizeTechnicalRisk(ocd) ==
    IF ocd.is_contract = "false" THEN "critical"
    ELSE IF ocd.is_erc20 = "false" THEN "high"
    ELSE IF FailedChecks(ocd) = 0 THEN "none"
    ELSE IF FailedChecks(ocd) <= 1 THEN "low"
    ELSE IF FailedChecks(ocd) <= 2 THEN "medium"
    ELSE IF FailedChecks(ocd) <= 3 THEN "high"
    ELSE "critical"

\* w.includes(siren glyph): the glyph of the fixed text, or one quoted in the
\* upstream free text
IncludesSiren(w) == w.glyph = "siren" \/ w.text \in {"siren in text"}

\* mutant: every siren-tagged warning taken for one that says CRITICAL
IncludesCRITICAL_AnySiren(w) == w.glyph = "siren"

\* w.includes("CRITICAL")
IncludesCRITICAL(w) == w.msg = "CRITICAL sell tax: % - Likely scam" \/ w.text \in {"CRITICAL in text"}

CountWhere(ws, P(_)) == Cardinality({i \in 1..Len(ws) : P(ws[i])})

generateMetadata(hpd, ocd, warnings) ==
    [ tax_risk |-> categorizeTaxRisk(Max(safeFloat(hpd.buy_tax, 0), safeFloat(hpd.sell_tax, 0))),
      centralization_risk |-> categorizeCentralizationRisk(safeFloat(hpd.top_10_holders_percent, 0)),
      technical_risk |-> categorizeTechnicalRisk(ocd),
      red_flags_count |-> CountWhere(warnings, IncludesSiren),
      passed_basic_checks |-> /\ ocd.is_erc20 = "true"
                              /\ hpd.is_honeypot = "false"
                              /\ CountWhere(warnings, IncludesCRITICAL) = 0 ]

----------------------------------------------------------------------------
(* ScoringEngine.aggregateResults *)

NoResult == [status |-> "none"]

aggregateResults(hpd, ocd, wH, wO) ==
    LET safetyScore == calculateSafetyScore(hpd, ocd, wH, wO)
        isHoneypot == checkHoneypot(hpd)
        warnings == generateWarnings(hpd, ocd)
    IN [ status |-> "verdict",
         safety_score |-> safetyScore,
         risk_level |-> getRiskLevel(safetyScore),
         is_honeypot |-> isHoneypot,
         confidence |-> calculateConfidence(hpd, ocd),
         warnings |-> warnings,
         recommendations |-> generateRecommendations(safetyScore, isHoneypot, warnings),
         sources_checked |-> identifySources(hpd, ocd),
         metadata |-> generateMetadata(hpd, ocd, warnings) ]

----------------------------------------------------------------------------
(* The records of the two sources *)

Tri == {"true", "false", "null"}

CheckNames == {"has_name", "has_symbol", "valid_decimals", "has_supply", "has_balance_of", "reasonable_code_size"}

\* checks is absent (undefined) on the records that never probed the contract
NoChecks == <<>>

\* HoneypotChecker.errorResponse
HoneypotErrorResponse(error) ==
    [ source |-> "honeypot.is", risk_level |-> "unknown", risk_score |-> Some(NeutralScore),
      is_honeypot |-> "null", error |-> error,
      buy_tax |-> Null, sell_tax |-> Null, transfer_tax |-> Null,
      holder_count |-> Null, top_10_holders_percent |-> Null,
      contract_verified |-> "null", is_proxy |-> "null", honeypot_reason |-> "",
      liquidity_usd |-> Null ]

\* OnChainAnalyzer.errorResponse
OnChainErrorResponse(error) ==
    [ source |-> "onchain", is_contract |-> "null", has_code |-> "null", code_size |-> Null,
      is_erc20 |-> "null", risk_score |-> Some(NeutralScore), checks |-> NoChecks, error |-> error ]

----------------------------------------------------------------------------
(* HoneypotChecker: parsing the upstream response.  A raw JSON value read   *)
(* as a number is [t, v]: t = "missing" (null or undefined), "text" (a     *)
(* value Number() turns into NaN) or "num" with v its value; tax and       *)
(* percentage values are in hundredths as everywhere.  A raw flag is       *)
(* "true", "false" or "missing".  The risk label is [t, v]: t = "missing", *)
(* "string" with v the text, or "other" (a truthy value that is no string).*)

Missing == [t |-> "missing", v |-> 0]

Text == [t |-> "text", v |-> 0]

Num(v) == [t |-> "num", v |-> v]

NoPayload == [isNull |-> TRUE, risk |-> [t |-> "missing", v |-> ""], isHoneypot |-> "missing",
              honeypotReason |-> "", buyTax |-> Missing, sellTax |-> Missing, transferTax |-> Missing,
              holders |-> Missing, top10Percent |-> Missing, openSource |-> "missing",
              isProxy |-> "missing", liquidityUsd |-> Missing]

\* a JSON object with none of the expected members
EmptyPayload == [NoPayload EXCEPT !.isNull = FALSE]

\* mutant: the value 1 itself taken for a fraction
parseTax_Inclusive(value) ==
    IF value.t # "num" THEN Null
    ELSE IF value.v <= Unit THEN Some(value.v * 100) ELSE Some(value.v)

\* HoneypotChecker.parseTax: num < 1 ? num * 100 : num
parseTax(value) ==
    IF value.t # "num" THEN Null
    ELSE IF value.v < Unit THEN Some(value.v * 100) ELSE Some(value.v)

\* HoneypotChecker.parseNumber: Number(value), null when it is NaN
parseNumber(value) == IF value.t # "num" THEN Null ELSE Some(value.v)

\* HoneypotChecker.parseFloat: parseFloat(String(value)), null when it is NaN
parseFloat(value) == IF value.t # "num" THEN Null ELSE Some(value.v)

\* risk.toLowerCase().replace(/\s+/g, "_") on the labels that are not already
\* in that form
NormalizedRisk(risk) ==
    CASE risk = "Very Low" -> "very_low"
      [] risk = "HIGH" -> "high"
      [] OTHER -> risk

\* HoneypotChecker.riskToScore: riskMapping[normalizedRisk] ?? 50
riskToScore(risk) ==
    LET normalizedRisk == NormalizedRisk(risk)
    IN CASE normalizedRisk = "very_low" -> 5
         [] normalizedRisk = "low" -> 20
         [] normalizedRisk = "medium" -> 50
         [] normalizedRisk = "high" -> 75
         [] normalizedRisk = "very_high" -> 90
         [] normalizedRisk = "honeypot" -> 100
         [] normalizedRisk = "unknown" -> 50
         [] OTHER -> 50

\* Boolean(x) of a raw flag
RawBoolean(flag) == IF flag = "true" THEN "true" ELSE "false"

\* HoneypotChecker.parseResponse: a null body or a label that is no string
\* raises inside the try block and gives the parse-error record
parseResponse(data) ==
    IF data.isNull \/ data.risk.t = "other"
    THEN HoneypotErrorResponse("Parse error: TypeError")
    ELSE LET risk == IF data.risk.t = "missing" \/ data.risk.v = "" THEN "unknown" ELSE data.risk.v
         IN [ source |-> "honeypot.is", risk_level |-> risk, risk_score |-> Some(riskToScore(risk)),
              is_honeypot |-> RawBoolean(data.isHoneypot), error |-> "",
              buy_tax |-> parseTax(data.buyTax), sell_tax |-> parseTax(data.sellTax),
              transfer_tax |-> parseTax(data.transferTax),
              holder_count |-> parseNumber(data.holders),
              top_10_holders_percent |-> parseFloat(data.top10Percent),
              contract_verified |-> RawBoolean(data.openSource), is_proxy |-> RawBoolean(data.isProxy),
              honeypot_reason |-> data.honeypotReason,
              liquidity_usd |-> parseFloat(data.liquidityUsd) ]

----------------------------------------------------------------------------
(* Construction: index.ts builds the two fetchers with their defaults      *)

\* a || b on an optional number: undefined and 0 are both falsy
OrDefault(opt, default) == IF opt = Null \/ opt[1] = 0 THEN default ELSE opt[1]

\* HoneypotChecker constructor: options.maxRetries || 2, options.retryDelay || 1000
\* OnChainAnalyzer constructor: options.maxRetries || 2
\* hpConfigured keeps the maxRetries option the caller passed (Null: none)
Constructed(maxRetries, retryDelay) ==
    [hpConfigured |-> maxRetries, hpMaxRetries |-> OrDefault(maxRetries, 2),
     hpRetryDelay |-> OrDefault(retryDelay, 1000), ocMaxRetries |-> OrDefault(Null, 2)]

\* index.ts passes neither option
DefaultOptions == Constructed(Null, Null)

\* RPC_URLS: the chains an RPC client is registered for
RpcChains == {1, 56, 137, 42161, 10, 8453, 43114}

NoRequest == [valid |-> FALSE, chain_id |-> 0, address |-> "none"]

NoResponse == [status |-> 0, success |-> FALSE, code |-> "none"]

\* last: how the most recent HTTP attempt ended ("none" before the first)
HpIdle == [pc |-> "idle", attempt |-> 0, slept |-> <<>>, last |-> "none", outcome |-> "pending"]

NoProbes == [p \in {} |-> 0]

\* codeFetch: how the byte-code fetch of step 1 ended ("none" while it runs)
\* deployed: the number of bytes of code the endpoint reported
OcIdle == [pc |-> "idle", attempt |-> 0, slept |-> <<>>, codeFetch |-> "none", codeSize |-> 0, deployed |-> 0,
           probes |-> NoProbes, outcome |-> "pending"]

NoRequestInFlight ==
    /\ options = DefaultOptions
    /\ web3Instances = RpcChains
    /\ request = NoRequest
    /\ hpFetch = HpIdle
    /\ ocFetch = OcIdle
    /\ response = NoResponse

----------------------------------------------------------------------------
(* HoneypotChecker.checkToken and makeRequest *)

\* how one HTTP attempt can end: a 2xx answer with a JSON body, a non-2xx
\* answer, the abort timer firing, fetch rejecting, a body that is no JSON
HttpOutcomes == {"ok", "http_error", "timeout", "network_error", "bad_json"}

\* the message of the error makeRequest throws
RequestError(outcome) ==
    CASE outcome = "http_error" -> "API returned 500: Internal Server Error"
      [] outcome = "timeout" -> "Request timeout after 10000ms"
      [] outcome = "network_error" -> "fetch failed"
      [] outcome = "bad_json" -> "Unexpected token < in JSON"
      [] OTHER -> ""

Pow2(n) == IF n = 0 THEN 1 ELSE IF n = 1 THEN 2 ELSE IF n = 2 THEN 4 ELSE IF n = 3 THEN 8 ELSE 16

\* mutant: the last failure is rethrown instead of being turned into a record
AttemptFailed_Rethrow(attempt, maxRetries, retryDelay, message) ==
    IF attempt = maxRetries
    THEN [next |-> "throw", record |-> HoneypotErrorResponse(""), delay |-> 0]
    ELSE [next |-> "sleep", record |-> HoneypotErrorResponse(""), delay |-> retryDelay * Pow2(attempt)]

\* the catch block of checkToken's retry loop
AttemptFailed(attempt, maxRetries, retryDelay, message) ==
    IF attempt = maxRetries
    THEN [next |-> "return", record |-> HoneypotErrorResponse("Failed after " \o ToString(maxRetries + 1)
                                            \o " attempts: " \o message),
          delay |-> 0]
    ELSE [next |-> "sleep", record |-> HoneypotErrorResponse(""), delay |-> retryDelay * Pow2(attempt)]

----------------------------------------------------------------------------
(* OnChainAnalyzer.  The deployed code is known by its size in bytes; the   *)
(* RPC answers with "0x" followed by two hex digits per byte.              *)

\* getCodeSize: the length of the hex string without its "0x" prefix
getCodeSize(codeBytes) == IF codeBytes = 0 THEN 0 ELSE 2 * codeBytes

\* hasCode = codeSize > 2
hasCode(codeSize) == codeSize > 2

\* the record analyzeToken returns for an address without code
NotAContract ==
    [ source |-> "onchain", is_contract |-> "false", has_code |-> "false", code_size |-> Some(0),
      is_erc20 |-> "false", risk_score |-> Some(100), checks |-> NoChecks,
      error |-> "Address is not a smart contract" ]

ProbeNames == {"name", "symbol", "decimals", "totalSupply", "balanceOf"}

\* a settled probe: fulfilled with a string (s) or a number (n), or rejected
\* because the call failed or because its 5 s timer fired first
Fulfilled(str, num) == [status |-> "fulfilled", s |-> str, n |-> num, reason |-> ""]

Rejected(reason) == [status |-> "rejected", s |-> "", n |-> 0, reason |-> reason]

ProbeOutcomes(p) ==
    {Rejected("call failed"), Rejected("Operation timeout")} \cup
    (CASE p = "name" -> {Fulfilled("USD Coin", 0), Fulfilled("", 0)}
       [] p = "symbol" -> {Fulfilled("USDC", 0), Fulfilled("", 0)}
       [] p = "decimals" -> {Fulfilled("", 6), Fulfilled("", 19)}
       [] p = "totalSupply" -> {Fulfilled("", 1000000), Fulfilled("", 0)}
       [] OTHER -> {Fulfilled("", 0)})

\* mutant: one rejected probe fails the whole group
TokenChecks_GroupFailure(probes) ==
    [k \in CheckNames |->
        IF \E q \in ProbeNames : probes[q].status = "rejected"
        THEN k = "reasonable_code_size"
        ELSE CASE k = "has_name" -> probes["name"].s # ""
               [] k = "has_symbol" -> probes["symbol"].s # ""
               [] k = "valid_decimals" -> probes["decimals"].n >= 0 /\ probes["decimals"].n <= 18
               [] k = "has_supply" -> probes["totalSupply"].n > 0
               [] OTHER -> TRUE]

\* readTokenData after Promise.allSettled: the checks and the compliance flag
TokenChecks(probes) ==
    [k \in CheckNames |->
        CASE k = "has_name" -> probes["name"].status = "fulfilled" /\ probes["name"].s # ""
          [] k = "has_symbol" -> probes["symbol"].status = "fulfilled" /\ probes["symbol"].s # ""
          [] k = "valid_decimals" -> /\ probes["decimals"].status = "fulfilled"
                                     /\ probes["decimals"].n >= 0 /\ probes["decimals"].n <= 18
          [] k = "has_supply" -> probes["totalSupply"].status = "fulfilled" /\ probes["totalSupply"].n > 0
          [] k = "has_balance_of" -> probes["balanceOf"].status = "fulfilled"
          [] OTHER -> TRUE]

\* mutant: a failed balance call blocks compliance too
readTokenData_NeedsBalance(probes) ==
    LET checks == TokenChecks(probes)
    IN [ is_erc20 |-> checks["has_name"] /\ checks["has_symbol"] /\ checks["valid_decimals"]
                      /\ checks["has_supply"] /\ checks["has_balance_of"],
         checks |-> checks ]

readTokenData(probes) ==
    LET checks == TokenChecks(probes)
    IN [ is_erc20 |-> checks["has_name"] /\ checks["has_symbol"] /\ checks["valid_decimals"]
                      /\ checks["has_supply"],
         checks |-> checks ]

\* calculateRiskScore
calculateRiskScore(tokenData, codeSize) ==
    LET checks == tokenData.checks
        score == (IF ~tokenData.is_erc20 THEN 40 ELSE 0)
                 + (IF ~checks["has_name"] THEN 10 ELSE 0)
                 + (IF ~checks["has_symbol"] THEN 10 ELSE 0)
                 + (IF ~checks["valid_decimals"] THEN 15 ELSE 0)
                 + (IF ~checks["has_supply"] THEN 15 ELSE 0)
                 + (IF ~checks["has_balance_of"] THEN 5 ELSE 0)
                 + (IF codeSize < 100 THEN 20 ELSE IF codeSize > 50000 THEN 10 ELSE 0)
    IN Min(score, 100)

\* the record analyzeToken builds for a contract (steps 2 to 4)
ContractRecord(probes, codeSize) ==
    LET tokenData == readTokenData(probes)
    IN [ source |-> "onchain", is_contract |-> "true", has_code |-> "true", code_size |-> Some(codeSize),
         is_erc20 |-> IF tokenData.is_erc20 THEN "true" ELSE "false",
         risk_score |-> Some(calculateRiskScore(tokenData, codeSize)),
         checks |-> tokenData.checks, error |-> "" ]

\* mutant: the failure that outlived the retries escapes analyzeToken
CodeFetchFailed_Rethrow(attempt, maxRetries) ==
    IF attempt < maxRetries
    THEN [next |-> "sleep", record |-> OnChainErrorResponse(""), delay |-> 1000 * Pow2(attempt)]
    ELSE [next |-> "throw", record |-> OnChainErrorResponse(""), delay |-> 0]

\* withRetry around getCode, and the catch block of analyzeToken that its
\* final throw lands in
CodeFetchFailed(attempt, maxRetries) ==
    IF attempt < maxRetries
    THEN [next |-> "sleep", record |-> OnChainErrorResponse(""), delay |-> 1000 * Pow2(attempt)]
    ELSE [next |-> "return", record |-> OnChainErrorResponse("Analysis failed: connection refused"),
          delay |-> 0]

----------------------------------------------------------------------------
(* The aggregator on its own: aggregateResults applied to a pair of records *)

Aggregate ==
    /\ pc = "input"
    /\ result' = aggregateResults(honeypotData, onchainData, honeypotWeight, onchainWeight)
    /\ pc' = "done"
    /\ UNCHANGED <<engineVars, honeypotData, onchainData, payload, requestVars>>

NextAggregate == Aggregate

InitEngine ==
    /\ honeypotWeight = DefaultHoneypotWeight
    /\ onchainWeight = DefaultOnchainWeight
    /\ result = NoResult
    /\ pc = "input"
    /\ payload = NoPayload
    /\ NoRequestInFlight

Verdict == pc = "done" /\ result.status = "verdict"

HpOk == honeypotData.error = ""

OcOk == onchainData.error = ""

----------------------------------------------------------------------------
(* Score inputs: every risk score of either record, each record errored or *)
(* not, every honeypot flag                                                *)

ErrorTexts == {"", "Failed after 3 attempts: Request timeout after 10000ms"}

ScoreHoneypotRecords ==
    { [HoneypotErrorResponse(e) EXCEPT !.risk_score = Some(r), !.is_honeypot = h] :
        e \in ErrorTexts, r \in 0..MaxScore, h \in Tri }

ScoreOnchainRecords ==
    { [OnChainErrorResponse(e) EXCEPT !.risk_score = Some(r)] :
        e \in {"", "Analysis failed: connection refused"}, r \in 0..MaxScore }

InitScore ==
    /\ InitEngine
    /\ honeypotData \in ScoreHoneypotRecords
    /\ onchainData \in ScoreOnchainRecords

SpecScore == InitScore /\ [][NextAggregate]_vars

\* C1: the safety score returned by aggregateResults is an integer in [0,100]
C1_ScoreInRange == Verdict => result.safety_score \in 0..100

C1_Witness == Verdict /\ HpOk /\ OcOk /\ honeypotData.risk_score = Some(100) /\ onchainData.risk_score = Some(0)


RiskOf(rec) == rec.risk_score[1]

\* C2: risk_level is a function of safety_score alone (SAFE iff >= 80,
\* LOW_RISK iff 60..79, MEDIUM_RISK iff 40..59, HIGH_RISK iff 20..39,
\* CRITICAL iff < 20), whatever the honeypot flag; exactly one level per
\* score, and no lower score is given a better level
LevelRank(l) == CASE l = "CRITICAL" -> 0 [] l = "HIGH_RISK" -> 1 [] l = "MEDIUM_RISK" -> 2
                  [] l = "LOW_RISK" -> 3 [] l = "SAFE" -> 4 [] OTHER -> 0 - 1

C3_WeightedMean ==
    Verdict /\ (HpOk \/ OcOk) =>
        LET s == result.safety_score
            a == 100 - RiskOf(honeypotData)
            b == 100 - RiskOf(onchainData)
        IN /\ HpOk /\ OcOk => /\ (6 * a + 4 * b) - 10 * s < 5
                              /\ 10 * s - (6 * a + 4 * b) <= 5
                              /\ s \in 0..100
           /\ HpOk /\ ~OcOk => s = a
           /\ ~HpOk /\ OcOk => s = b
           /\ HpOk /\ OcOk /\ RiskOf(honeypotData) = 10 /\ RiskOf(onchainData) = 5 => s = 92

C3_Witness == Verdict /\ HpOk /\ OcOk /\ RiskOf(honeypotData) = 10 /\ RiskOf(onchainData) = 5 /\ result.safety_score = 92


----------------------------------------------------------------------------
(* Confidence inputs: every combination of the conditions the heuristic    *)
(* reads, on and next to its cutoffs                                       *)

AllChecks(hasName, hasSymbol) ==
    [k \in CheckNames |-> IF k = "has_name" THEN hasName ELSE IF k = "has_symbol" THEN hasSymbol ELSE TRUE]

ConfHoneypotRecords ==
    { [HoneypotErrorResponse(e) EXCEPT !.contract_verified = v, !.holder_count = h, !.liquidity_usd = l] :
        e \in ErrorTexts, v \in Tri, h \in {Null, Some(100), Some(101)}, l \in {Null, Some(10000), Some(10001)} }

ConfOnchainRecords ==
    { [OnChainErrorResponse(e) EXCEPT !.is_erc20 = c, !.checks = ch] :
        e \in {"", "Analysis failed: connection refused"}, c \in Tri,
        ch \in {NoChecks} \cup {AllChecks(n, y) : n \in BOOLEAN, y \in BOOLEAN} }

InitConfidence ==
    /\ InitEngine
    /\ honeypotData \in ConfHoneypotRecords
    /\ onchainData \in ConfOnchainRecords

SpecConfidence == InitConfidence /\ [][NextAggregate]_vars

\* the records obtained by turning one unmet corroborating condition into a met one
Corroborated(hpd, ocd) ==
    { <<[hpd EXCEPT !.error = ""], ocd>>,
      <<hpd, [ocd EXCEPT !.error = ""]>>,
      <<[hpd EXCEPT !.contract_verified = "true"], ocd>>,
      <<[hpd EXCEPT !.holder_count = Some(101)], ocd>>,
      <<[hpd EXCEPT !.liquidity_usd = Some(10001)], ocd>>,
      <<hpd, [ocd EXCEPT !.is_erc20 = "true"]>>,
      <<hpd, [ocd EXCEPT !.checks = AllChecks(TRUE, CheckHolds(ocd, "has_symbol"))]>>,
      <<hpd, [ocd EXCEPT !.checks = AllChecks(CheckHolds(ocd, "has_name"), TRUE)]>> }

\* C8: confidence is min(1.0, 0.5 + bonuses): within [0.5, 1.0], 0.5 when both
\* records are errored, never lowered by one more corroborating condition,
\* and with both sources error-free, a verified contract and more than 100
\* holders strictly above the confidence of every pair with an errored record
C8_Confidence ==
    Verdict =>
        LET c == result.confidence
            verified == HpOk /\ honeypotData.contract_verified = "true"
            holders == HpOk /\ honeypotData.holder_count # Null /\ honeypotData.holder_count[1] > 100
            liquid == HpOk /\ honeypotData.liquidity_usd # Null /\ honeypotData.liquidity_usd[1] > 10000
            erc20 == OcOk /\ onchainData.is_erc20 = "true"
            bonuses == (IF HpOk /\ OcOk THEN 300 ELSE IF HpOk \/ OcOk THEN 100 ELSE 0)
                       + (IF verified THEN 100 ELSE 0) + (IF holders THEN 50 ELSE 0)
                       + (IF liquid THEN 50 ELSE 0) + (IF erc20 THEN 50 ELSE 0)
                       + (IF erc20 /\ CheckHolds(onchainData, "has_name") THEN 25 ELSE 0)
                       + (IF erc20 /\ CheckHolds(onchainData, "has_symbol") THEN 25 ELSE 0)
        IN /\ c = (IF 500 + bonuses > 1000 THEN 1000 ELSE 500 + bonuses)
           /\ 500 <= c /\ c <= 1000
           /\ (~HpOk /\ ~OcOk) => c = 500
           /\ \A p \in Corroborated(honeypotData, onchainData) : calculateConfidence(p[1], p[2]) >= c
           /\ (HpOk /\ OcOk /\ verified /\ holders) =>
                 \A h \in ConfHoneypotRecords, o \in ConfOnchainRecords :
                     (h.error # "" \/ o.error # "") => c > calculateConfidence(h, o)

C8_Witness ==
    /\ Verdict /\ HpOk /\ OcOk
    /\ honeypotData.contract_verified = "true" /\ honeypotData.holder_count = Some(101)
    /\ honeypotData.liquidity_usd = Null /\ onchainData.is_erc20 = "false"
    /\ result.confidence = 950


----------------------------------------------------------------------------
(* Warning inputs: taxes and holder concentration on and next to every     *)
(* cutoff, every honeypot flag, with and without a reason, over chain      *)
(* records of every kind                                                   *)

SellTaxInputs == {Null, Some(0 - 500), Some(0), Some(500), Some(501), Some(1000), Some(1001),
                  Some(2000), Some(2001), Some(5000), Some(5001), Some(5500), Some(10000)}

BuyTaxInputs == {Null, Some(0), Some(500), Some(501), Some(1000), Some(1001), Some(2000), Some(2001), Some(5500)}

Top10Inputs == {Null, Some(0), Some(5000), Some(5001), Some(7500), Some(7501), Some(9000), Some(9001), Some(10000)}

WarnHoneypotRecords ==
    { [HoneypotErrorResponse("") EXCEPT !.is_honeypot = h, !.honeypot_reason = r, !.sell_tax = st,
                                        !.buy_tax = bt, !.top_10_holders_percent = t, !.contract_verified = v] :
        h \in Tri, r \in {"", "cannot sell"}, st \in SellTaxInputs, bt \in BuyTaxInputs,
        t \in Top10Inputs, v \in {"true", "false"} }

\* a failure sentinel, an address without code, a compliant contract, a
\* small non-compliant contract
WarnOnchainRecords ==
    { OnChainErrorResponse("Analysis failed: connection refused"),
      [OnChainErrorResponse("Address is not a smart contract") EXCEPT
          !.is_contract = "false", !.has_code = "false", !.code_size = Some(0), !.is_erc20 = "false",
          !.risk_score = Some(100)],
      [OnChainErrorResponse("") EXCEPT
          !.is_contract = "true", !.has_code = "true", !.code_size = Some(4000), !.is_erc20 = "true",
          !.risk_score = Some(0), !.checks = AllChecks(TRUE, TRUE)],
      [OnChainErrorResponse("") EXCEPT
          !.is_contract = "true", !.has_code = "true", !.code_size = Some(60), !.is_erc20 = "false",
          !.risk_score = Some(70), !.checks = AllChecks(FALSE, TRUE)] }

InitWarnings ==
    /\ InitEngine
    /\ honeypotData \in WarnHoneypotRecords
    /\ onchainData \in WarnOnchainRecords

SpecWarnings == InitWarnings /\ [][NextAggregate]_vars

WarningsWith(msgs) == {i \in 1..Len(result.warnings) : result.warnings[i].msg \in msgs}

HoneypotMsg == "HONEYPOT DETECTED - Cannot sell this token"

\* C6: the verdict is a honeypot iff the reputation flag is true; exactly
\* then the honeypot warning is the first warning, followed at once by the
\* reason warning iff a reason was given
C6_HoneypotFlag ==
    Verdict =>
        LET ws == result.warnings
            flagged == honeypotData.is_honeypot = "true"
        IN /\ result.is_honeypot <=> flagged
           /\ flagged <=> (Len(ws) >= 1 /\ ws[1].msg = HoneypotMsg)
           /\ ~flagged => WarningsWith({HoneypotMsg, "Reason: "}) = {}
           /\ flagged => /\ WarningsWith({HoneypotMsg}) = {1}
                         /\ (honeypotData.honeypot_reason # "")
                               <=> (Len(ws) >= 2 /\ ws[2].msg = "Reason: "
                                      /\ ws[2].text = honeypotData.honeypot_reason)
                         /\ honeypotData.honeypot_reason = "" => WarningsWith({"Reason: "}) = {}

C6_Witness ==
    /\ Verdict /\ result.is_honeypot /\ honeypotData.honeypot_reason = "cannot sell"
    /\ Len(result.warnings) >= 3 /\ result.warnings[2].text = "cannot sell"
    /\ onchainData.is_contract = "false"

SellMsgs == {"CRITICAL sell tax: % - Likely scam", "Very high sell tax: %", "High sell tax: %", "Moderate sell tax: %"}

BuyMsgs == {"Very high buy tax: %", "High buy tax: %", "Moderate buy tax: %"}

HolderMsgs == {"EXTREME centralization: Top 10 holders own %", "Very high centralization: Top 10 holders own %",
               "High centralization: Top 10 holders own %"}

\* the one warning of a family present in the verdict: "" when there is none
TheWarning(msgs) ==
    IF WarningsWith(msgs) = {} THEN "" ELSE result.warnings[CHOOSE i \in WarningsWith(msgs) : TRUE].msg

ValueOr0(v) == IF v = Null THEN 0 ELSE v[1]

\* C7: at most one sell-tax, one buy-tax and one holder-concentration
\* warning; the one emitted is that of the highest cutoff strictly exceeded
\* (sell 50/20/10/5, buy 20/10/5, holders 90/75/50), none below the lowest
C7_OneTierPerFamily ==
    Verdict =>
        LET st == ValueOr0(honeypotData.sell_tax)
            bt == ValueOr0(honeypotData.buy_tax)
            t == ValueOr0(honeypotData.top_10_holders_percent)
        IN /\ Cardinality(WarningsWith(SellMsgs)) <= 1
           /\ Cardinality(WarningsWith(BuyMsgs)) <= 1
           /\ Cardinality(WarningsWith(HolderMsgs)) <= 1
           /\ TheWarning(SellMsgs) = (IF st > 5000 THEN "CRITICAL sell tax: % - Likely scam"
                                      ELSE IF st > 2000 THEN "Very high sell tax: %"
                                      ELSE IF st > 1000 THEN "High sell tax: %"
                                      ELSE IF st > 500 THEN "Moderate sell tax: %" ELSE "")
           /\ TheWarning(BuyMsgs) = (IF bt > 2000 THEN "Very high buy tax: %"
                                     ELSE IF bt > 1000 THEN "High buy tax: %"
                                     ELSE IF bt > 500 THEN "Moderate buy tax: %" ELSE "")
           /\ TheWarning(HolderMsgs) = (IF t > 9000 THEN "EXTREME centralization: Top 10 holders own %"
                                        ELSE IF t > 7500 THEN "Very high centralization: Top 10 holders own %"
                                        ELSE IF t > 5000 THEN "High centralization: Top 10 holders own %" ELSE "")

C7_Witness ==
    /\ Verdict /\ honeypotData.sell_tax = Some(5500) /\ honeypotData.buy_tax = Some(5500)
    /\ honeypotData.top_10_holders_percent = Some(9001)
    /\ Cardinality(WarningsWith(SellMsgs)) = 1 /\ TheWarning(SellMsgs) = "CRITICAL sell tax: % - Likely scam"


----------------------------------------------------------------------------
(* Recommendation inputs: every safety score, every honeypot flag, from no *)
(* warning to many                                                         *)

RecHoneypotRecords ==
    { [HoneypotErrorResponse("") EXCEPT !.risk_score = Some(r), !.is_honeypot = h, !.honeypot_reason = hr,
                                        !.sell_tax = st, !.contract_verified = v] :
        r \in 0..MaxScore, h \in Tri, hr \in {"", "cannot sell"}, st \in {Null, Some(5500)},
        v \in {"true", "false"} }

InitRecommend ==
    /\ InitEngine
    /\ honeypotData \in RecHoneypotRecords
    /\ onchainData \in WarnOnchainRecords

SpecRecommend == InitRecommend /\ [][NextAggregate]_vars

\* C5: a true honeypot flag gives exactly the two-item abort list, for every
\* safety score, chain record and number of warnings
C5_HoneypotAbortList ==
    Verdict /\ honeypotData.is_honeypot = "true" =>
        result.recommendations =
            << [glyph |-> "no_entry", msg |-> "DO NOT INTERACT - Confirmed honeypot scam", n |-> 0],
               [glyph |-> "cross", msg |-> "Do not buy, do not hold, report as scam", n |-> 0] >>

C5_Witness ==
    /\ Verdict /\ honeypotData.is_honeypot = "true" /\ result.safety_score = 95
    /\ result.risk_level = "SAFE" /\ Len(result.warnings) >= 4 /\ Len(result.recommendations) = 2


----------------------------------------------------------------------------
(* The reputation normalizer on its own: parseResponse applied to a body   *)

Parse ==
    /\ pc = "body"
    /\ honeypotData' = parseResponse(payload)
    /\ pc' = "parsed"
    /\ UNCHANGED <<engineVars, onchainData, result, payload, requestVars>>

NextParse == Parse

InitNormalizer ==
    /\ honeypotWeight = DefaultHoneypotWeight
    /\ onchainWeight = DefaultOnchainWeight
    /\ honeypotData = HoneypotErrorResponse("")
    /\ onchainData = OnChainErrorResponse("")
    /\ result = NoResult
    /\ pc = "body"
    /\ NoRequestInFlight

\* raw taxes as fractions (0, 0.05, 0.07, 0.5, 0.99), as percentages (1, 1.01,
\* 7, 55, 100), negative, missing and non-numeric
RawTaxes == {Missing, Text, Num(0 - 5), Num(0), Num(5), Num(7), Num(50), Num(99), Num(100), Num(101),
             Num(700), Num(5500), Num(10000)}

InitTax ==
    /\ InitNormalizer
    /\ payload \in { [EmptyPayload EXCEPT !.buyTax = b, !.sellTax = st, !.transferTax = t] :
                       b \in RawTaxes, st \in RawTaxes, t \in RawTaxes }

SpecTax == InitTax /\ [][NextParse]_vars

Parsed == pc = "parsed"

\* what the rule of the claim gives for one raw value
NormalizedTax(raw) ==
    IF raw.t = "missing" THEN Null
    ELSE IF raw.v < 100 THEN Some(100 * raw.v) ELSE Some(raw.v)

----------------------------------------------------------------------------
(* POST /api/v1/analyze: one request through validation, the two fetchers  *)
(* running concurrently, the join and the aggregation                      *)

Requests ==
    { [valid |-> v, chain_id |-> c, address |-> a] :
        v \in BOOLEAN, c \in {1, 99999}, a \in {"checksummed", "bad_checksum"} }

\* bodies of a 2xx answer: JSON null, an empty object, a clean token, a
\* confirmed honeypot, a body whose risk label is not a string
RequestBodies ==
    { NoPayload,
      EmptyPayload,
      [EmptyPayload EXCEPT !.risk = [t |-> "string", v |-> "very_low"], !.isHoneypot = "false",
                           !.buyTax = Num(2), !.sellTax = Num(200), !.holders = Num(5000),
                           !.top10Percent = Num(2000), !.openSource = "true", !.liquidityUsd = Num(250000)],
      [EmptyPayload EXCEPT !.risk = [t |-> "string", v |-> "honeypot"], !.isHoneypot = "true",
                           !.honeypotReason = "cannot sell", !.sellTax = Num(10000), !.openSource = "false"],
      [EmptyPayload EXCEPT !.risk = [t |-> "other", v |-> ""]] }

\* sizes in bytes of the code the RPC endpoint reports: none, one byte, a
\* stub, an ordinary token, an oversized contract
CodeSizes == {0, 1, 30, 2000, 26000}

\* web3.utils.isAddress: a mixed-case address must carry a valid checksum
isValidAddress(address) == address = "checksummed"

\* analyzeToken up to its first await
analyzeTokenStart(address, chainId, instances) ==
    IF chainId \notin instances
    THEN [fetch |-> [OcIdle EXCEPT !.pc = "done", !.outcome = "returned"],
          record |-> OnChainErrorResponse("Chain not configured")]
    ELSE IF ~isValidAddress(address)
    THEN [fetch |-> [OcIdle EXCEPT !.pc = "done", !.outcome = "returned"],
          record |-> OnChainErrorResponse("Invalid Ethereum address format")]
    ELSE [fetch |-> [OcIdle EXCEPT !.pc = "code"], record |-> OnChainErrorResponse("")]

\* mutant: every chain id passes the support check
isChainSupported_Always(chainId, instances) == TRUE

\* OnChainAnalyzer.isChainSupported
isChainSupported(chainId, instances) == chainId \in instances

\* mutant: the handler goes on as soon as one fetcher has returned
PromiseAll_Race(hp, oc) ==
    IF "threw" \in {hp.outcome, oc.outcome} THEN "rejected"
    ELSE IF "returned" \in {hp.outcome, oc.outcome} THEN "fulfilled"
    ELSE "pending"

\* Promise.all over the two fetcher promises: rejected as soon as one
\* rejects, fulfilled once both are
PromiseAll(hp, oc) ==
    IF "threw" \in {hp.outcome, oc.outcome} THEN "rejected"
    ELSE IF hp.outcome = "returned" /\ oc.outcome = "returned" THEN "fulfilled"
    ELSE "pending"

ErrorResponse(status, code) == [status |-> status, success |-> FALSE, code |-> code]

SuccessResponse == [status |-> 200, success |-> TRUE, code |-> "none"]

\* the handler up to Promise.all: schema validation, the chain check, then
\* both fetchers are called
Receive(req) ==
    /\ pc = "idle"
    /\ request' = req
    /\ IF ~req.valid
       THEN /\ response' = ErrorResponse(400, "VALIDATION_ERROR")
            /\ pc' = "responded"
            /\ UNCHANGED <<hpFetch, ocFetch, onchainData>>
       ELSE IF ~isChainSupported(req.chain_id, web3Instances)
       THEN /\ response' = ErrorResponse(400, "UNSUPPORTED_CHAIN")
            /\ pc' = "responded"
            /\ UNCHANGED <<hpFetch, ocFetch, onchainData>>
       ELSE /\ hpFetch' = [HpIdle EXCEPT !.pc = "request"]
            /\ ocFetch' = analyzeTokenStart(req.address, req.chain_id, web3Instances).fetch
            /\ onchainData' = analyzeTokenStart(req.address, req.chain_id, web3Instances).record
            /\ pc' = "fetching"
            /\ UNCHANGED response
    /\ UNCHANGED <<engineVars, honeypotData, result, payload, options, web3Instances>>

\* one HTTP attempt of makeRequest ends
HpAnswer(outcome, body) ==
    /\ hpFetch.pc = "request"
    /\ IF outcome = "ok"
       THEN /\ honeypotData' = parseResponse(body)
            /\ payload' = body
            /\ hpFetch' = [hpFetch EXCEPT !.pc = "done", !.outcome = "returned", !.last = "ok"]
       ELSE LET r == AttemptFailed(hpFetch.attempt, options.hpMaxRetries, options.hpRetryDelay,
                                   RequestError(outcome))
            IN /\ payload' = payload
               /\ honeypotData' = IF r.next = "return" THEN r.record ELSE honeypotData
               /\ hpFetch' = IF r.next = "return"
                             THEN [hpFetch EXCEPT !.pc = "done", !.outcome = "returned", !.last = outcome]
                             ELSE IF r.next = "throw"
                             THEN [hpFetch EXCEPT !.pc = "done", !.outcome = "threw", !.last = outcome]
                             ELSE [hpFetch EXCEPT !.pc = "sleeping", !.slept = Append(@, r.delay),
                                                  !.last = outcome]
    /\ UNCHANGED <<engineVars, onchainData, result, pc, options, web3Instances, request, ocFetch, response>>

\* the backoff sleep of checkToken is over
HpWake ==
    /\ hpFetch.pc = "sleeping"
    /\ hpFetch' = [hpFetch EXCEPT !.pc = "request", !.attempt = @ + 1]
    /\ UNCHANGED <<engineVars, honeypotData, onchainData, result, pc, payload, options, web3Instances,
                   request, ocFetch, response>>

\* getCode answers with the deployed code; the retry counter of withRetry
\* goes out of scope
OcCode(codeBytes) ==
    /\ ocFetch.pc = "code"
    /\ IF hasCode(getCodeSize(codeBytes))
       THEN /\ ocFetch' = [ocFetch EXCEPT !.pc = "probes", !.codeSize = getCodeSize(codeBytes), !.deployed = codeBytes,
                                          !.codeFetch = "ok", !.attempt = 0, !.slept = <<>>]
            /\ UNCHANGED onchainData
       ELSE /\ ocFetch' = [ocFetch EXCEPT !.pc = "done", !.outcome = "returned",
                                          !.codeSize = getCodeSize(codeBytes), !.deployed = codeBytes,
                                          !.codeFetch = "ok", !.attempt = 0, !.slept = <<>>]
            /\ onchainData' = NotAContract
    /\ UNCHANGED <<engineVars, honeypotData, result, pc, payload, options, web3Instances, request,
                   hpFetch, response>>

\* getCode fails
OcCodeFails ==
    /\ ocFetch.pc = "code"
    /\ LET r == CodeFetchFailed(ocFetch.attempt, options.ocMaxRetries)
       IN /\ onchainData' = IF r.next = "return" THEN r.record ELSE onchainData
          /\ ocFetch' = IF r.next = "return"
                        THEN [ocFetch EXCEPT !.pc = "done", !.outcome = "returned", !.codeFetch = "failed"]
                        ELSE IF r.next = "throw"
                        THEN [ocFetch EXCEPT !.pc = "done", !.outcome = "threw", !.codeFetch = "failed"]
                        ELSE [ocFetch EXCEPT !.pc = "backoff", !.slept = Append(@, r.delay)]
    /\ UNCHANGED <<engineVars, honeypotData, result, pc, payload, options, web3Instances, request,
                   hpFetch, response>>

\* the backoff sleep of withRetry is over
OcWake ==
    /\ ocFetch.pc = "backoff"
    /\ ocFetch' = [ocFetch EXCEPT !.pc = "code", !.attempt = @ + 1]
    /\ UNCHANGED <<engineVars, honeypotData, onchainData, result, pc, payload, options, web3Instances,
                   request, hpFetch, response>>

\* one of the five interface probes settles; after the last one
\* Promise.allSettled resolves and readTokenData goes on to the metadata fetch
ProbeSettles(p, o) ==
    /\ ocFetch.pc = "probes"
    /\ p \notin DOMAIN ocFetch.probes
    /\ LET settled == [q \in DOMAIN ocFetch.probes \cup {p} |-> IF q = p THEN o ELSE ocFetch.probes[q]]
       IN ocFetch' = [ocFetch EXCEPT !.probes = settled,
                                     !.pc = IF DOMAIN settled = ProbeNames THEN "metadata" ELSE "probes"]
    /\ UNCHANGED <<engineVars, honeypotData, onchainData, result, pc, payload, options, web3Instances,
                   request, hpFetch, response>>

\* the metadata code fetch of readTokenData ends, well or not (its failure is
\* ignored), and analyzeToken builds its record
OcMetadata(ok) ==
    /\ ocFetch.pc = "metadata"
    /\ onchainData' = ContractRecord(ocFetch.probes, ocFetch.codeSize)
    /\ ocFetch' = [ocFetch EXCEPT !.pc = "done", !.outcome = "returned"]
    /\ UNCHANGED <<engineVars, honeypotData, result, pc, payload, options, web3Instances, request,
                   hpFetch, response>>

\* the RPC endpoint never answers a getCode call (the byte-code fetch of step
\* 1 or the metadata fetch of readTokenData): no timer guards either call,
\* so analyzeToken stays suspended at its await
OcCodeHangs ==
    /\ ocFetch.pc \in {"code", "metadata"}
    /\ ocFetch' = [ocFetch EXCEPT !.pc = "hung"]
    /\ UNCHANGED <<engineVars, honeypotData, onchainData, result, pc, payload, options, web3Instances,
                   request, hpFetch, response>>

\* Promise.all settles: with both records the handler aggregates and answers;
\* a fetcher that threw sends it to the catch block
Respond ==
    /\ pc = "fetching"
    /\ PromiseAll(hpFetch, ocFetch) # "pending"
    /\ IF PromiseAll(hpFetch, ocFetch) = "rejected"
       THEN /\ response' = ErrorResponse(500, "INTERNAL_ERROR")
            /\ UNCHANGED result
       ELSE /\ result' = aggregateResults(honeypotData, onchainData, honeypotWeight, onchainWeight)
            /\ response' = SuccessResponse
    /\ pc' = "responded"
    /\ UNCHANGED <<engineVars, honeypotData, onchainData, payload, options, web3Instances, request,
                   hpFetch, ocFetch>>

Next ==
    \/ \E req \in Requests : Receive(req)
    \/ \E outcome \in HttpOutcomes, body \in RequestBodies : HpAnswer(outcome, body)
    \/ HpWake
    \/ \E codeBytes \in CodeSizes : OcCode(codeBytes)
    \/ OcCodeFails
    \/ OcWake
    \/ \E p \in ProbeNames : \E o \in ProbeOutcomes(p) : ProbeSettles(p, o)
    \/ \E ok \in BOOLEAN : OcMetadata(ok)
    \/ OcCodeHangs
    \/ Respond

Init ==
    /\ honeypotWeight = DefaultHoneypotWeight
    /\ onchainWeight = DefaultOnchainWeight
    /\ honeypotData = HoneypotErrorResponse("")
    /\ onchainData = OnChainErrorResponse("")
    /\ result = NoResult
    /\ pc = "idle"
    /\ payload = NoPayload
    /\ NoRequestInFlight

Spec == Init /\ [][Next]_vars


Responded == pc = "responded"

VerdictKeys == {"status", "safety_score", "risk_level", "is_honeypot", "confidence", "warnings",
                "recommendations", "sources_checked", "metadata"}

\* C4: when both records carry an error the aggregator still returns a
\* complete verdict, with safety score 50 and level MEDIUM_RISK; a request on
\* a supported chain whose two fetchers both failed is answered with that
\* verdict and status 200, never with an error response
C4_BothFailedStillAnswered ==
    (Responded /\ request.valid /\ request.chain_id \in RpcChains
        /\ honeypotData.error # "" /\ onchainData.error # "") =>
            /\ response.success /\ response.status = 200
            /\ DOMAIN result = VerdictKeys
            /\ result.safety_score = 50
            /\ result.risk_level = "MEDIUM_RISK"
            /\ Len(result.recommendations) > 0

C4_Witness ==
    /\ Responded /\ response.success
    /\ hpFetch.last = "timeout" /\ hpFetch.attempt = 2 /\ ocFetch.codeFetch = "failed"
    /\ honeypotData.error # "" /\ onchainData.error # ""
    /\ result.safety_score = 50

\* the failure sentinel of either source: neutral risk 50 and an error text
Sentinel(rec) == rec.error # "" /\ rec.risk_score = Some(50)

MalformedBody(body) == body.isNull \/ body.risk.t = "other"

\* C10: neither fetcher ever throws; a reputation fetch whose last attempt
\* timed out, was answered non-2xx, failed to connect or carried no JSON, or
\* whose body was malformed, and a chain fetch whose code fetch failed, end
\* in a returned failure sentinel (risk 50, an error text, and an unknown
\* honeypot flag for the reputation source)
C10_FetchersNeverThrow ==
    /\ hpFetch.outcome # "threw"
    /\ ocFetch.outcome # "threw"
    /\ (hpFetch.pc = "done" /\ (hpFetch.last # "ok" \/ MalformedBody(payload))) =>
          /\ hpFetch.outcome = "returned"
          /\ Sentinel(honeypotData) /\ honeypotData.is_honeypot = "null"
    /\ (ocFetch.pc = "done" /\ ocFetch.codeFetch = "failed") =>
          /\ ocFetch.outcome = "returned"
          /\ Sentinel(onchainData)

C10_Witness ==
    /\ hpFetch.pc = "done" /\ hpFetch.last = "bad_json" /\ hpFetch.outcome = "returned"
    /\ ocFetch.pc = "done" /\ ocFetch.codeFetch = "failed" /\ ocFetch.outcome = "returned"
    /\ Sentinel(honeypotData) /\ Sentinel(onchainData)

----------------------------------------------------------------------------
(* HoneypotChecker.checkToken on its own, for every retry configuration *)

\* the largest retry count a caller configures
MaxConfiguredRetries == 3

ConfiguredRetries == {Null} \cup {Some(n) : n \in 0..MaxConfiguredRetries}

ConfiguredDelays == {Null, Some(500)}

InitRetry ==
    /\ honeypotWeight = DefaultHoneypotWeight
    /\ onchainWeight = DefaultOnchainWeight
    /\ result = NoResult
    /\ pc = "fetching"
    /\ honeypotData = HoneypotErrorResponse("")
    /\ onchainData = OnChainErrorResponse("")
    /\ payload = NoPayload
    /\ options \in {Constructed(m, d) : m \in ConfiguredRetries, d \in ConfiguredDelays}
    /\ web3Instances = RpcChains
    /\ request = [valid |-> TRUE, chain_id |-> 1, address |-> "checksummed"]
    /\ hpFetch = [HpIdle EXCEPT !.pc = "request"]
    /\ ocFetch = OcIdle
    /\ response = NoResponse

NextRetry ==
    \/ \E outcome \in HttpOutcomes, body \in RequestBodies : HpAnswer(outcome, body)
    \/ HpWake

SpecRetry == InitRetry /\ [][NextRetry]_vars

\* the retry count the caller asked for (2 when none was given)
RequestedRetries == IF options.hpConfigured = Null THEN 2 ELSE options.hpConfigured[1]

\* C11: for every configured retry count n >= 0 (default 2) checkToken under
\* persistent failure makes exactly n + 1 attempts and ends with the failure
\* sentinel; attempt k+1 starts only after attempt k failed and a delay of
\* retryDelay * 2^k has passed, nothing follows a successful attempt, and no
\* delay follows the last attempt
C11_RetryCount ==
    /\ hpFetch.attempt <= RequestedRetries
    /\ Len(hpFetch.slept) = hpFetch.attempt + (IF hpFetch.pc = "sleeping" THEN 1 ELSE 0)
    /\ \A k \in 1..Len(hpFetch.slept) : hpFetch.slept[k] = options.hpRetryDelay * 2^(k - 1)
    /\ (hpFetch.pc = "done" /\ hpFetch.last # "ok") =>
          /\ hpFetch.attempt + 1 = RequestedRetries + 1
          /\ Len(hpFetch.slept) = RequestedRetries
          /\ Sentinel(honeypotData)

\* a checker configured with no retries ends after three attempts
C11_Witness ==
    /\ options.hpConfigured = Some(0)
    /\ hpFetch.pc = "done" /\ hpFetch.last # "ok"
    /\ hpFetch.attempt + 1 = 3 /\ hpFetch.slept = <<1000, 2000>>
    /\ Sentinel(honeypotData)

----------------------------------------------------------------------------
(* Claims about the chain source within a request *)

\* the chain source has its answer to the code fetch and has returned
CodeKnown == ocFetch.pc = "done" /\ ocFetch.codeFetch = "ok"

NotContractMsg == "Not a smart contract - EOA addresses cannot be tokens"

\* C12: analyzeToken returns is_contract = false with risk 100 exactly when
\* the deployed code is empty (any non-empty code is a contract); then no
\* probe is issued after the code fetch, and the verdict built from that
\* record carries the critical "Not a smart contract" warning
C12_NoCodeShortCircuit ==
    /\ CodeKnown =>
          ((onchainData.is_contract = "false" /\ onchainData.risk_score = Some(100))
              <=> ocFetch.codeSize = 0)
    /\ (ocFetch.pc = "done" /\ onchainData.is_contract = "false") => ocFetch.probes = NoProbes
    /\ (Responded /\ response.success /\ onchainData.is_contract = "false") =>
          \E i \in 1..Len(result.warnings) :
              result.warnings[i].glyph = "siren" /\ result.warnings[i].msg = NotContractMsg

\* an address holding one byte of code is reported as not being a contract
C12_Witness ==
    /\ Responded /\ response.success
    /\ CodeKnown /\ ocFetch.codeSize = 2
    /\ onchainData.is_contract = "false" /\ onchainData.risk_score = Some(100)

----------------------------------------------------------------------------
(* Claims about the handler *)

\* C13: a well-formed request whose chain id has no registered RPC endpoint
\* is answered with the UNSUPPORTED_CHAIN error and no verdict, and neither
\* fetcher is ever started for it
C13_UnsupportedChainRejected ==
    (pc # "idle" /\ request.valid /\ request.chain_id \notin RpcChains) =>
        /\ Responded
        /\ response = [status |-> 400, success |-> FALSE, code |-> "UNSUPPORTED_CHAIN"]
        /\ result = NoResult
        /\ hpFetch = HpIdle
        /\ ocFetch = OcIdle

C13_Witness ==
    /\ Responded /\ request.valid /\ request.chain_id = 99999
    /\ response.code = "UNSUPPORTED_CHAIN" /\ hpFetch.pc = "idle" /\ ocFetch.pc = "idle"

\* both fetchers have settled with a record
BothSettled == hpFetch.outcome = "returned" /\ ocFetch.outcome = "returned"

\* C15: both fetchers of an accepted request are started together, neither
\* waiting for the other; aggregateResults runs exactly once, and only after
\* both fetchers have settled, whatever the order in which they settle
C15_JoinNotRace ==
    /\ [](pc = "fetching" => (hpFetch.pc # "idle" /\ ocFetch.pc # "idle"))
    /\ [](result # NoResult => (BothSettled /\ Responded))
    /\ [][result' # result => (result = NoResult /\ BothSettled /\ pc = "fetching"
                                  /\ hpFetch' = hpFetch /\ ocFetch' = ocFetch)]_vars
    /\ [][(pc = "idle" /\ pc' = "fetching") => (hpFetch'.pc # "idle" /\ ocFetch'.pc # "idle")]_vars

\* the reputation fetcher has returned while the chain source is still
\* probing, and no verdict exists yet
C15_Witness ==
    /\ pc = "fetching" /\ result = NoResult
    /\ hpFetch.outcome = "returned" /\ ocFetch.pc = "probes" /\ ocFetch.outcome = "pending"

----------------------------------------------------------------------------
(* OnChainAnalyzer.analyzeToken called on its own, without the handler's    *)
(* chain check in front of it                                              *)

CallAnalyzeToken(address, chainId) ==
    /\ pc = "idle"
    /\ request' = [valid |-> TRUE, chain_id |-> chainId, address |-> address]
    /\ ocFetch' = analyzeTokenStart(address, chainId, web3Instances).fetch
    /\ onchainData' = analyzeTokenStart(address, chainId, web3Instances).record
    /\ pc' = "analyzing"
    /\ UNCHANGED <<engineVars, honeypotData, result, payload, options, web3Instances, hpFetch, response>>

NextAnalyze ==
    \/ \E address \in {"checksummed", "bad_checksum"}, chainId \in {1, 99999} :
          CallAnalyzeToken(address, chainId)
    \/ \E codeBytes \in CodeSizes : OcCode(codeBytes)
    \/ OcCodeFails
    \/ OcWake
    \/ \E p \in ProbeNames : \E o \in ProbeOutcomes(p) : ProbeSettles(p, o)
    \/ \E ok \in BOOLEAN : OcMetadata(ok)
    \/ OcCodeHangs

SpecAnalyze == Init /\ [][NextAnalyze]_vars

\* C14: analyzeToken called with a chain id that has no registered endpoint
\* ends in a hard error, not in an ordinary returned record with risk 50 and
\* an error text that the aggregator would take like any other failure
C14_UnregisteredChainHardError ==
    (pc = "analyzing" /\ request.chain_id \notin web3Instances /\ ocFetch.pc = "done") =>
        ~(ocFetch.outcome = "returned" /\ Sentinel(onchainData))

\* the call on chain 99999 has returned the ordinary sentinel
C14_Witness ==
    /\ pc = "analyzing" /\ request.chain_id = 99999
    /\ ocFetch.pc = "done" /\ ocFetch.outcome = "returned"
    /\ onchainData.risk_score = Some(50) /\ onchainData.error = "Chain not configured"
    /\ onchainData.is_contract = "null"

\* the probe answered, in time
Answered(p) == ocFetch.probes[p].status = "fulfilled"

\* analyzeToken has returned the record of a contract
ContractAnalyzed == ocFetch.pc = "done" /\ ocFetch.outcome = "returned" /\ onchainData.is_contract = "true"

\* C20: is_erc20 is true iff has_name, has_symbol, valid_decimals (0..18)
\* and has_supply (supply > 0) all hold, each of them false when its own
\* probe failed or timed out; the balanceOf probe never changes is_erc20
C20_Erc20Compliance ==
    ContractAnalyzed =>
        /\ onchainData.checks["has_name"] = (Answered("name") /\ ocFetch.probes["name"].s # "")
        /\ onchainData.checks["has_symbol"] = (Answered("symbol") /\ ocFetch.probes["symbol"].s # "")
        /\ onchainData.checks["valid_decimals"] =
              (Answered("decimals") /\ ocFetch.probes["decimals"].n \in 0..18)
        /\ onchainData.checks["has_supply"] =
              (Answered("totalSupply") /\ ocFetch.probes["totalSupply"].n > 0)
        /\ onchainData.checks["has_balance_of"] = Answered("balanceOf")
        /\ (onchainData.is_erc20 = "true") <=>
              /\ onchainData.checks["has_name"] /\ onchainData.checks["has_symbol"]
              /\ onchainData.checks["valid_decimals"] /\ onchainData.checks["has_supply"]
        /\ onchainData.is_erc20 \in {"true", "false"}

\* a compliant token whose balance call timed out
C20_Witness ==
    /\ ContractAnalyzed /\ onchainData.is_erc20 = "true"
    /\ ocFetch.probes["balanceOf"] = Rejected("Operation timeout")
    /\ ocFetch.probes["decimals"].n = 6 /\ ocFetch.probes["totalSupply"].n = 1000000

----------------------------------------------------------------------------
(* Progress of a request.  Every step that is possible is eventually taken: *)
(* the event loop runs each callback that is ready, every timer that was    *)
(* set fires, and an endpoint's answer, failure or silence is one of the    *)
(* steps of the fetcher that waits for it.                                  *)

SpecLive == Init /\ [][Next]_vars /\ WF_vars(Next)

\* C16: every accepted request eventually gets its response: every network
\* operation of both fetchers is bounded by a timer, so even with an
\* endpoint that never answers both fetchers settle and the handler answers
C16_EventuallyAnswered == (pc = "fetching") ~> (pc = "responded")

\* the chain source waits for a code fetch that no timer will end, with the
\* reputation fetcher long settled and the request still unanswered
C16_Witness ==
    /\ pc = "fetching" /\ response = NoResponse
    /\ ocFetch.pc = "hung" /\ ocFetch.outcome = "pending" /\ ocFetch.codeFetch = "none"
    /\ hpFetch.outcome = "returned"

----------------------------------------------------------------------------
(* Claims about the verdict of a request *)

Answered200 == Responded /\ response.success /\ result # NoResult

\* C17: whenever the verdict reports is_honeypot = true its risk level is
\* CRITICAL, whatever the risk scores of the two records
C17_HoneypotIsCritical ==
    (Answered200 /\ result.is_honeypot) => result.risk_level = "CRITICAL"

\* a confirmed honeypot (reputation risk 100) on a well-formed token
\* contract (chain risk 0) is reported as MEDIUM_RISK
C17_Witness ==
    /\ Answered200 /\ result.is_honeypot
    /\ honeypotData.is_honeypot = "true" /\ honeypotData.risk_score = Some(100)
    /\ onchainData.error = "" /\ onchainData.risk_score = Some(0)
    /\ result.safety_score = 40 /\ result.risk_level = "MEDIUM_RISK"

\* C19: the record for an address without code (is_contract = false, risk
\* 100) is no failure sentinel and counts as a usable source: with an
\* error-free reputation record of risk r the score is
\* round(0.6 * (100 - r) + 0.4 * 0), so at most 60 and never SAFE
C19_NoCodeCounts ==
    (Answered200 /\ onchainData.is_contract = "false" /\ onchainData.risk_score = Some(100)) =>
        /\ onchainData.error = ""
        /\ honeypotData.error = "" =>
              /\ 10 * result.safety_score - 5 <= 6 * (100 - honeypotData.risk_score[1])
              /\ 6 * (100 - honeypotData.risk_score[1]) < 10 * result.safety_score + 5
              /\ result.safety_score <= 60
              /\ result.risk_level # "SAFE"
              /\ result.sources_checked = <<"honeypot.is", "onchain">>

\* an address without code whose reputation record is clean (risk 5) is
\* rated 95 and SAFE from the reputation source alone
C19_Witness ==
    /\ Answered200 /\ onchainData.is_contract = "false" /\ onchainData.risk_score = Some(100)
    /\ ocFetch.codeSize = 0
    /\ onchainData.error # "" /\ honeypotData.error = "" /\ honeypotData.risk_score = Some(5)
    /\ result.safety_score = 95 /\ result.risk_level = "SAFE"
    /\ result.sources_checked = <<"honeypot.is">>

----------------------------------------------------------------------------
(* The keys of the objects the fetchers return.  A model record stands for  *)
(* the object built by one of five object literals; an optional key the     *)
(* literal does not write is absent from the object.                        *)

\* interface HoneypotCheckResult
HoneypotCheckResultKeys ==
    {"source", "risk_level", "risk_score", "is_honeypot", "buy_tax", "sell_tax", "transfer_tax",
     "buy_gas_used", "sell_gas_used", "holder_count", "top_10_holders_percent", "contract_verified",
     "is_proxy", "honeypot_reason", "metadata", "raw_data", "error"}

\* interface OnChainCheckResult
OnChainCheckResultKeys ==
    {"source", "is_contract", "has_code", "code_size", "is_erc20", "name", "symbol", "decimals",
     "total_supply", "risk_score", "checks", "metadata", "error"}

\* the literal of parseResponse writes every key but error; the literal of
\* HoneypotChecker.errorResponse writes them all
HoneypotKeys(rec) ==
    IF rec.error = "" THEN HoneypotCheckResultKeys \ {"error"} ELSE HoneypotCheckResultKeys

\* the literal of step 4 writes every key but error; the no-code literal and
\* OnChainAnalyzer.errorResponse write the five required fields, the risk
\* score and error
OnChainKeys(rec) ==
    IF rec.error = ""
    THEN OnChainCheckResultKeys \ {"error"}
    ELSE {"source", "is_contract", "has_code", "code_size", "is_erc20", "risk_score", "error"}

\* C18: every record a fetcher returns, success record, no-code record and
\* failure sentinel alike, carries the full key set of its source's record
\* (error apart, which marks the failure), so a source's records have the
\* same keys on every path
C18_FullyPopulated ==
    /\ hpFetch.outcome = "returned" =>
          HoneypotKeys(honeypotData) \cup {"error"} = HoneypotCheckResultKeys
    /\ ocFetch.outcome = "returned" =>
          OnChainKeys(onchainData) \cup {"error"} = OnChainCheckResultKeys

\* the no-code record of the chain source has no checks, name, symbol,
\* decimals, total_supply or metadata key
C18_Witness ==
    /\ ocFetch.outcome = "returned" /\ onchainData.is_contract = "false"
    /\ OnChainCheckResultKeys \ OnChainKeys(onchainData) =
          {"name", "symbol", "decimals", "total_supply", "checks", "metadata"}
    /\ hpFetch.outcome = "returned" /\ honeypotData.error = ""

----------------------------------------------------------------------------
(* The technical risk score of the chain source *)

Penalty(points, applies) == IF applies THEN points ELSE 0

\* C21: for a contract with code the chain risk score is min(100, 40*[not
\* compliant] + 10*[no name] + 10*[no symbol] + 15*[invalid decimals] +
\* 15*[no supply] + 5*[balanceOf failed] + 20*[code shorter than 100 bytes]
\* + 10*[code longer than 50000 bytes]), and the length compared and
\* reported as code_size is the size of the deployed code in bytes
C21_ChainRiskScore ==
    ContractAnalyzed =>
        /\ onchainData.code_size = Some(ocFetch.deployed)
        /\ onchainData.risk_score[1] =
              LET sum == Penalty(40, onchainData.is_erc20 # "true")
                         + Penalty(10, ~onchainData.checks["has_name"])
                         + Penalty(10, ~onchainData.checks["has_symbol"])
                         + Penalty(15, ~onchainData.checks["valid_decimals"])
                         + Penalty(15, ~onchainData.checks["has_supply"])
                         + Penalty(5, ~onchainData.checks["has_balance_of"])
                         + Penalty(20, ocFetch.deployed < 100)
                         + Penalty(10, ocFetch.deployed > 50000)
              IN IF sum > 100 THEN 100 ELSE sum

\* a compliant token of 26000 bytes is reported with code_size 52000 and
\* charged the oversize penalty
C21_Witness ==
    /\ ContractAnalyzed /\ ocFetch.deployed = 26000
    /\ onchainData.is_erc20 = "true" /\ onchainData.checks["has_balance_of"]
    /\ onchainData.code_size = Some(52000) /\ onchainData.risk_score = Some(10)

----------------------------------------------------------------------------
(* The five interface probes *)

Settled == DOMAIN ocFetch.probes

\* the check a probe feeds, and whether the probe's own answer passes it
CheckOf(p) ==
    CASE p = "name" -> "has_name"
      [] p = "symbol" -> "has_symbol"
      [] p = "decimals" -> "valid_decimals"
      [] p = "totalSupply" -> "has_supply"
      [] OTHER -> "has_balance_of"

Passes(p, o) ==
    /\ o.status = "fulfilled"
    /\ CASE p = "name" -> o.s # ""
         [] p = "symbol" -> o.s # ""
         [] p = "decimals" -> o.n \in 0..18
         [] p = "totalSupply" -> o.n > 0
         [] OTHER -> TRUE

\* C22: the five probes run concurrently, each ended by its own answer,
\* failure or 5 s timer; a probe that fails or times out neither cancels
\* nor blocks another; readTokenData goes on only when all five have
\* settled; each check reflects the outcome of its own probe only
C22_ProbesIndependent ==
    /\ [](ocFetch.pc = "probes" => (Settled # ProbeNames /\ onchainData.is_contract = "null"))
    /\ [](ocFetch.pc = "metadata" => Settled = ProbeNames)
    /\ [](ContractAnalyzed =>
            /\ Settled = ProbeNames
            /\ \A p \in ProbeNames : onchainData.checks[CheckOf(p)] = Passes(p, ocFetch.probes[p]))
    /\ [][ocFetch.pc = "probes" =>
            /\ \A q \in Settled : q \in DOMAIN ocFetch'.probes /\ ocFetch'.probes[q] = ocFetch.probes[q]
            /\ \A q \in ProbeNames \ Settled :
                  ENABLED (\E o \in ProbeOutcomes(q) : ProbeSettles(q, o))]_vars

\* a record built after the name probe timed out and the symbol probe
\* failed while the other three answered
C22_Witness ==
    /\ ContractAnalyzed
    /\ ocFetch.probes["name"] = Rejected("Operation timeout")
    /\ ocFetch.probes["symbol"] = Rejected("call failed")
    /\ onchainData.checks = [has_name |-> FALSE, has_symbol |-> FALSE, valid_decimals |-> TRUE,
                              has_supply |-> TRUE, has_balance_of |-> TRUE, reasonable_code_size |-> TRUE]

----------------------------------------------------------------------------
(* The place of the warning-count line in the recommendations              *)

\* the positions of the lines that restate the warning count
CountLines(recs) == {i \in 1..Len(recs) : recs[i].n # 0}

IsAdvice(r) == r.n = 0

\* the first advisory line of each bracket
BracketHead(score) ==
    IF score >= 80 THEN "Generally safe to interact"
    ELSE IF score >= 60 THEN "Exercise caution - Some concerns detected"
    ELSE IF score >= 40 THEN "HIGH RISK - Proceed with extreme caution"
    ELSE IF score >= 20 THEN "VERY HIGH RISK - Strongly advise avoiding"
    ELSE "CRITICAL RISK - DO NOT INTERACT"

\* the number of advisory lines of each bracket
BracketLen(score) ==
    IF score >= 80 THEN 3 ELSE IF score >= 40 THEN 4 ELSE IF score >= 20 THEN 4 ELSE 4

----------------------------------------------------------------------------
(* The red-flag count of the metadata                                      *)

FlagIf(cond) == IF cond THEN 1 ELSE 0

CriticalSellTax == honeypotData.sell_tax # Null /\ honeypotData.sell_tax[1] > 5000

ExtremeConcentration ==
    honeypotData.top_10_holders_percent # Null /\ honeypotData.top_10_holders_percent[1] > 9000

\* C24: red_flags_count is the number of critical-tier warnings: the
\* honeypot warning, the critical sell-tax warning (above 50%), the
\* extreme-concentration warning (above 90%) and the not-a-smart-contract
\* warning count once each, and nothing else counts
C24_RedFlagsCount ==
    Verdict =>
        result.metadata.red_flags_count =
            FlagIf(honeypotData.is_honeypot = "true") + FlagIf(CriticalSellTax)
            + FlagIf(ExtremeConcentration) + FlagIf(onchainData.is_contract = "false")

\* a confirmed honeypot with the honeypot warning and no other critical
\* warning: the count is 0
C24_Witness ==
    /\ Verdict /\ honeypotData.is_honeypot = "true" /\ result.is_honeypot
    /\ result.warnings[1] = [glyph |-> "warning", msg |-> "HONEYPOT DETECTED - Cannot sell this token",
                             value |-> Null, text |-> ""]
    /\ ~CriticalSellTax /\ ~ExtremeConcentration /\ onchainData.is_contract # "false"
    /\ result.metadata.red_flags_count = 0

\* what the code counts: the three warnings that carry the siren glyph
C24_SirenCount ==
    Verdict =>
        result.metadata.red_flags_count =
            FlagIf(CriticalSellTax) + FlagIf(ExtremeConcentration) + FlagIf(onchainData.is_contract = "false")

----------------------------------------------------------------------------
(* Metadata inputs: the failure sentinel and answered records of the       *)
(* reputation source, with the flag, the sell tax and the holder           *)
(* concentration on either side of their critical cutoffs; of the chain    *)
(* source its failure sentinels, an address without code, and a contract   *)
(* with every combination of passed and failed probes                      *)

MetaHoneypotRecords ==
    { HoneypotErrorResponse("Failed after 3 attempts: Request timeout after 10000ms") }
    \cup
    { [HoneypotErrorResponse("") EXCEPT !.is_honeypot = h, !.honeypot_reason = r, !.sell_tax = st,
                                        !.top_10_holders_percent = t] :
        h \in Tri, r \in {"", "cannot sell"}, st \in {Null, Some(5000), Some(5001)},
        t \in {Null, Some(9000), Some(9001)} }

ProbedChecks == {ch \in [CheckNames -> BOOLEAN] : ch["reasonable_code_size"]}

\* the record analyzeToken builds from the checks of a 2000-byte contract
ProbedRecord(ch) ==
    LET tokenData == [is_erc20 |-> ch["has_name"] /\ ch["has_symbol"] /\ ch["valid_decimals"] /\ ch["has_supply"],
                      checks |-> ch]
    IN [OnChainErrorResponse("") EXCEPT
           !.is_contract = "true", !.has_code = "true", !.code_size = Some(4000),
           !.is_erc20 = IF tokenData.is_erc20 THEN "true" ELSE "false",
           !.risk_score = Some(calculateRiskScore(tokenData, 4000)), !.checks = ch]

MetaOnchainRecords ==
    { OnChainErrorResponse("Analysis failed: connection refused"),
      OnChainErrorResponse("Chain not configured"),
      [OnChainErrorResponse("Address is not a smart contract") EXCEPT
          !.is_contract = "false", !.has_code = "false", !.code_size = Some(0), !.is_erc20 = "false",
          !.risk_score = Some(100)] }
    \cup { ProbedRecord(ch) : ch \in ProbedChecks }

InitMetadata ==
    /\ InitEngine
    /\ honeypotData \in MetaHoneypotRecords
    /\ onchainData \in MetaOnchainRecords

SpecMetadata == InitMetadata /\ [][NextAggregate]_vars

\* C25: passed_basic_checks is true exactly when the chain record reports
\* is_erc20 true, the reputation record reports is_honeypot false (not
\* unknown) and no warning says CRITICAL, which is the case exactly when the
\* sell tax is above 50; so it is false for every confirmed honeypot, when
\* either source returned a failure sentinel, and when the sell tax is above 50
C25_PassedBasicChecks ==
    Verdict =>
        /\ result.metadata.passed_basic_checks =
              ( /\ onchainData.is_erc20 = "true"
                /\ honeypotData.is_honeypot = "false"
                /\ ~CriticalSellTax )
        /\ (\E i \in 1..Len(result.warnings) : result.warnings[i].msg = "CRITICAL sell tax: % - Likely scam")
              = CriticalSellTax
        /\ honeypotData.is_honeypot = "true" => ~result.metadata.passed_basic_checks
        /\ (honeypotData.error # "" \/ onchainData.error # "") => ~result.metadata.passed_basic_checks
        /\ CriticalSellTax => ~result.metadata.passed_basic_checks

\* a compliant contract with a clean flag passes at a sell tax of 50% and
\* with 90.01% of the supply in ten hands
C25_Witness ==
    /\ Verdict
    /\ onchainData.is_erc20 = "true" /\ honeypotData.is_honeypot = "false"
    /\ honeypotData.sell_tax = Some(5000)
    /\ honeypotData.top_10_holders_percent = Some(9001)
    /\ result.metadata.red_flags_count = 1
    /\ result.metadata.passed_basic_checks

\* the same token one hundredth of a percent above the cutoff does not pass
C25_WitnessCritical ==
    /\ Verdict
    /\ onchainData.is_erc20 = "true" /\ honeypotData.is_honeypot = "false"
    /\ honeypotData.sell_tax = Some(5001)
    /\ ~result.metadata.passed_basic_checks

----------------------------------------------------------------------------
(* The reputation normalizer followed by the aggregator: an answered body  *)
(* is parsed and the record goes into a verdict together with the record   *)
(* of a compliant contract                                                 *)

\* the risk labels of the table, other texts, an empty text, no label, and a
\* value that is no string
RawLabels ==
    { [t |-> "string", v |-> l] : l \in {"very_low", "low", "medium", "high", "very_high", "honeypot",
                                         "unknown", "Very Low", "HIGH", "moderate", ""} }
    \cup { [t |-> "missing", v |-> ""], [t |-> "other", v |-> ""] }

RawFlags == {"true", "false", "missing"}

PipelineBodies ==
    { NoPayload }
    \cup { [EmptyPayload EXCEPT !.risk = l, !.openSource = o, !.isHoneypot = h, !.sellTax = st] :
             l \in RawLabels, o \in RawFlags, h \in RawFlags, st \in {Missing, Num(200)} }

InitPipeline ==
    /\ honeypotWeight = DefaultHoneypotWeight
    /\ onchainWeight = DefaultOnchainWeight
    /\ honeypotData = HoneypotErrorResponse("")
    /\ onchainData = ProbedRecord([k \in CheckNames |-> TRUE])
    /\ result = NoResult
    /\ pc = "body"
    /\ payload \in PipelineBodies
    /\ NoRequestInFlight

\* aggregateResults on the parsed record
AggregateParsed ==
    /\ pc = "parsed"
    /\ result' = aggregateResults(honeypotData, onchainData, honeypotWeight, onchainWeight)
    /\ pc' = "done"
    /\ UNCHANGED <<engineVars, honeypotData, onchainData, payload, requestVars>>

NextPipeline == Parse \/ AggregateParsed

SpecPipeline == InitPipeline /\ [][NextPipeline]_vars

NotVerifiedWarned ==
    \E i \in 1..Len(result.warnings) : result.warnings[i].msg = "Contract source code not verified"

\* C26: from the upstream body to the verdict, the warning that the contract
\* source code is not verified is emitted only when the body explicitly
\* reports openSource false; a body without verification data does not
\* produce it
C26_UnverifiedOnlyWhenReported ==
    Verdict =>
        /\ NotVerifiedWarned => (~payload.isNull /\ payload.openSource = "false")
        /\ payload.openSource = "missing" => ~NotVerifiedWarned

\* a body without contractCode: the record says contract_verified false and
\* the verdict carries the warning
C26_Witness ==
    /\ Verdict
    /\ ~payload.isNull /\ payload.openSource = "missing"
    /\ honeypotData.error = "" /\ honeypotData.contract_verified = "false"
    /\ NotVerifiedWarned

----------------------------------------------------------------------------
(* The risk label table                                                    *)

TableLabels == {"very_low", "low", "medium", "high", "very_high", "honeypot", "unknown"}

\* the score the table gives to a raw label: the listed labels by the table,
\* unlisted text, an empty or missing label and a label of another type 50
TableScore(label) ==
    IF label.t = "string" /\ label.v \in TableLabels
    THEN CASE label.v = "very_low" -> 5
           [] label.v = "low" -> 20
           [] label.v = "medium" -> 50
           [] label.v = "high" -> 75
           [] label.v = "very_high" -> 90
           [] label.v = "honeypot" -> 100
           [] OTHER -> 50
    ELSE 50

\* the listed labels, and what is no listed label in any spelling
PlainLabel(label) == label.t # "string" \/ label.v \in TableLabels \cup {"moderate", ""}

Normalized == pc \in {"parsed", "done"}

\* C27: the normalizer scores the risk label by the table very_low 5, low 20,
\* medium 50, high 75, very_high 90, honeypot 100, unknown 50; any other label
\* (unlisted text, no label, a label that is no string) is missing data: the
\* record has risk score 50 and no error, and the other fields of the body
\* are extracted all the same
C27_RiskLabelTable ==
    (Normalized /\ ~payload.isNull) =>
        /\ honeypotData.error = ""
        /\ PlainLabel(payload.risk) => honeypotData.risk_score = Some(TableScore(payload.risk))
        /\ honeypotData.is_honeypot = (IF payload.isHoneypot = "true" THEN "true" ELSE "false")
        /\ payload.sellTax = Num(200) => honeypotData.sell_tax = Some(200)

\* a body whose risk label is a number and whose sell tax is 2%: the record is
\* the parse-error sentinel, without the sell tax
C27_Witness ==
    /\ Normalized /\ ~payload.isNull
    /\ payload.risk.t = "other" /\ payload.sellTax = Num(200) /\ payload.isHoneypot = "false"
    /\ honeypotData.error = "Parse error: TypeError"
    /\ honeypotData.risk_score = Some(50)
    /\ honeypotData.sell_tax = Null /\ honeypotData.is_honeypot = "null"

\* the table and the default hold for every label that is a string or missing
C27_StringLabels ==
    (Normalized /\ ~payload.isNull /\ payload.risk.t # "other") =>
        /\ honeypotData.error = ""
        /\ PlainLabel(payload.risk) => honeypotData.risk_score = Some(TableScore(payload.risk))
        /\ payload.risk = [t |-> "string", v |-> "Very Low"] => honeypotData.risk_score = Some(5)
        /\ payload.sellTax = Num(200) => honeypotData.sell_tax = Some(200)

----------------------------------------------------------------------------
(* The sources listed in an answered verdict                                *)

Listed(source) == \E i \in 1..Len(result.sources_checked) : result.sources_checked[i] = source

\* C28: every request answered with a verdict lists at least one source in
\* sources_checked, and the sources listed are the analyzers whose record
\* of that request came without an error
C28_SourcesListed ==
    Answered200 =>
        /\ Len(result.sources_checked) >= 1
        /\ Listed("honeypot.is") = (honeypotData.error = "")
        /\ Listed("onchain") = (onchainData.error = "")

\* the upstream API timed out three times and the RPC endpoint refused the
\* code fetch three times: status 200, a verdict, no source listed
C28_Witness ==
    /\ Answered200
    /\ hpFetch.last = "timeout" /\ ocFetch.codeFetch = "failed"
    /\ honeypotData.error # "" /\ onchainData.error # ""
    /\ result.safety_score = 50
    /\ result.sources_checked = <<>>

\* the list names exactly the analyzers whose record has no error
C28_SourcesAreErrorFree ==
    Answered200 =>
        /\ Listed("honeypot.is") = (honeypotData.error = "")
        /\ Listed("onchain") = (onchainData.error = "")
        /\ Len(result.sources_checked) <= 2

----------------------------------------------------------------------------
(* The ScoringEngine constructor and the weights.  The options are in      *)
(* tenths; the weights the constructor stores are in units of 1/WeightScale *)
(* so that the normalized weights are exact.                               *)

RECURSIVE GCD(_, _)
GCD(a, b) == IF b = 0 THEN a ELSE GCD(b, a % b)

LCM(a, b) == (a \div GCD(a, b)) * b

RECURSIVE LCMOf(_)
LCMOf(S) == IF S = {} THEN 1 ELSE LET x == CHOOSE y \in S : TRUE IN LCM(x, LCMOf(S \ {x}))

\* options.honeypotWeight / options.onchainWeight: not given, 0, 0.3, 0.4, 0.6, 1, 1.2
WeightOptions == {Null, Some(0), Some(3), Some(4), Some(6), Some(10), Some(12)}

\* a ?? b
OrElse(opt, default) == IF opt = Null THEN default ELSE opt[1]

WeightSums == { OrElse(h, DefaultHoneypotWeight) + OrElse(o, DefaultOnchainWeight) :
                  h \in WeightOptions, o \in WeightOptions } \ {0}

WeightScale == LCMOf(WeightSums \cup {10})

\* ScoringEngine constructor: the defaults, and the normalization of a pair
\* that does not sum to 1
ScoringEngine(honeypotOption, onchainOption) ==
    LET hw == OrElse(honeypotOption, DefaultHoneypotWeight)
        ow == OrElse(onchainOption, DefaultOnchainWeight)
        totalWeight == hw + ow
    IN IF totalWeight # 10
       THEN [honeypotWeight |-> hw * (WeightScale \div totalWeight),
             onchainWeight |-> ow * (WeightScale \div totalWeight)]
       ELSE [honeypotWeight |-> hw * (WeightScale \div 10), onchainWeight |-> ow * (WeightScale \div 10)]

\* new ScoringEngine(options)
Construct ==
    /\ pc = "new"
    /\ honeypotWeight' = ScoringEngine(honeypotWeight, onchainWeight).honeypotWeight
    /\ onchainWeight' = ScoringEngine(honeypotWeight, onchainWeight).onchainWeight
    /\ pc' = "input"
    /\ UNCHANGED <<honeypotData, onchainData, result, payload, requestVars>>

WeightHoneypotRecords ==
    { [HoneypotErrorResponse(e) EXCEPT !.risk_score = Some(r)] :
        e \in ErrorTexts, r \in {0, 5, 37, 50, 100} }

WeightOnchainRecords ==
    { [OnChainErrorResponse(e) EXCEPT !.risk_score = Some(r)] :
        e \in {"", "Analysis failed: connection refused"}, r \in {0, 10, 50, 85, 100} }

\* before construction the two weight variables hold the options passed; the
\* pair (0, 0), whose normalization divides by zero, is left out
InitWeights ==
    /\ honeypotWeight \in WeightOptions
    /\ onchainWeight \in WeightOptions
    /\ OrElse(honeypotWeight, DefaultHoneypotWeight) + OrElse(onchainWeight, DefaultOnchainWeight) > 0
    /\ honeypotData \in WeightHoneypotRecords
    /\ onchainData \in WeightOnchainRecords
    /\ result = NoResult
    /\ pc = "new"
    /\ payload = NoPayload
    /\ NoRequestInFlight

NextWeights == Construct \/ Aggregate

SpecWeights == InitWeights /\ [][NextWeights]_vars

UsableWeight ==
    (IF honeypotData.error = "" THEN honeypotWeight ELSE 0) + (IF onchainData.error = "" THEN onchainWeight ELSE 0)

SomeUsable == honeypotData.error = "" \/ onchainData.error = ""

\* the score under the weights the constructor is about to store
NormalizedScore ==
    LET engine == ScoringEngine(honeypotWeight, onchainWeight)
    IN calculateSafetyScore(honeypotData, onchainData, engine.honeypotWeight, engine.onchainWeight)

\* the score under the weights as they were passed
OptionScore ==
    calculateSafetyScore(honeypotData, onchainData, OrElse(honeypotWeight, DefaultHoneypotWeight),
                         OrElse(onchainWeight, DefaultOnchainWeight))

\* C29: for every pair of weights the constructor accepts, a weight of 0 for
\* one source and pairs that do not sum to 1 included, and every pair of
\* records, the total weight of the usable sources is not 0 when a source is
\* usable and the safety score is an integer from 0 to 100; the
\* normalization of the constructor, which multiplies both weights by the
\* same factor, leaves the safety score of every pair of records as it was
C29_WeightedAverageDefined ==
    /\ Verdict => ((SomeUsable => UsableWeight # 0) /\ result.safety_score \in 0..MaxScore)
    /\ pc = "new" => NormalizedScore = OptionScore

\* weights 1 and 0, the reputation source failed and the chain source usable:
\* the total weight is 0 and the score is not a number
C29_Witness ==
    /\ Verdict
    /\ honeypotWeight = WeightScale /\ onchainWeight = 0
    /\ honeypotData.error # "" /\ onchainData.error = ""
    /\ UsableWeight = 0
    /\ result.safety_score = NaN
    /\ result.risk_level = "CRITICAL"

\* with two positive weights the average is defined and within range
C29_PositiveWeights ==
    (Verdict /\ honeypotWeight > 0 /\ onchainWeight > 0) =>
        /\ SomeUsable => UsableWeight # 0
        /\ result.safety_score \in 0..MaxScore

\* the normalization on its own changes no score
C29_ScaleInvariant == pc = "new" => NormalizedScore = OptionScore

----------------------------------------------------------------------------
(* The technical risk of the metadata                                      *)

ChainSucceeded == onchainData.error = "" /\ onchainData.is_contract = "true"

NoCheckFailed == \A k \in CheckNames : k \in DOMAIN onchainData.checks /\ onchainData.checks[k]

\* C30: technical_risk is "none" only when the chain source succeeded,
\* reported a compliant contract and none of its checks failed; it is never
\* "none" for a failure sentinel of the chain source
C30_TechnicalRiskNone ==
    (Verdict /\ result.metadata.technical_risk = "none") =>
        /\ ChainSucceeded
        /\ onchainData.is_erc20 = "true"
        /\ NoCheckFailed

\* the chain analysis failed: technical_risk is "none"
C30_Witness ==
    /\ Verdict
    /\ onchainData = OnChainErrorResponse("Analysis failed: connection refused")
    /\ result.metadata.technical_risk = "none"
    /\ ~result.metadata.passed_basic_checks

\* for a record the chain source built from a contract or from an address
\* without code the rule is as stated
C30_AnalyzedRecords ==
    (Verdict /\ onchainData.is_contract # "null") =>
        /\ result.metadata.technical_risk = "none" =>
              (ChainSucceeded /\ onchainData.is_erc20 = "true" /\ NoCheckFailed)
        /\ onchainData.is_contract = "false" => result.metadata.technical_risk = "critical"
        /\ (onchainData.is_contract = "true" /\ onchainData.is_erc20 = "false")
              => result.metadata.technical_risk = "high"

====
